---- MODULE Spec2Model ----
(***************************************************************************)
(* Model of the documentation-to-memory extraction pipeline of             *)
(* memory-hook-bench.                                                      *)
(*                                                                         *)
(*   Spec         the worker-pool run: cmdExtractMemories ->               *)
(*                extractFromDirectory -> parallelMap/extractMemory ->     *)
(*                JSON backup -> writeToLanceDB                             *)
(*   SpecFair     Spec with the fairness of the JavaScript event loop      *)
(*   SpecDedup    finalizeMemories applied to parser output                *)
(*   SpecClassify repeated calls of shouldExtract on the module-level      *)
(*                pattern arrays                                           *)
(*   SpecCascade  one call of shouldExtract per sample section             *)
(*   SpecParse    parseMarkdownSections applied to small documents         *)
(*   SpecChunk    the loop of chunkText                                    *)
(*   SpecResponse extractMemory after the claude call returned a text      *)
(*   SpecJsonl    the loop of parseMemoriesFromModelOutput                 *)
(*   SpecWrite    writeToLanceDB / writeLanceDb, run after run on one      *)
(*                destination, every step free to fail                     *)
(*   SpecEval     runSingleEval of the bench runner                        *)
(*   SpecStore    writeJsonl and the reader of the file                    *)
(*   SpecExtract  one run of each command line: docs-to-memories extract   *)
(*                with its batch loop, and the start of the other two      *)
(*                                                                         *)
(* Strings whose characters matter (dedup keys, classified content) are    *)
(* sequences of one-character strings; strings that are only compared as   *)
(* wholes (file names, triggers of the pool run) are TLA+ strings.         *)
(***************************************************************************)
EXTENDS Integers, Sequences, FiniteSets, TLC

\* ------------------------------------------------------------------ bounds
\* Longest candidate list of a generated worker-pool run.
MaxCands == 3
\* Largest --workers value of a generated worker-pool run.
MaxWorkers == 2

\* --------------------------------------------------------------- variables
VARIABLES
    \* cmdExtractMemories
    phase,          \* where the command is
    memories,       \* what extractFromDirectory returned
    jsonFile,       \* the JSON backup: Absent, or Holding its records
    lanceTable,     \* the "memories" table: Absent, or Holding its rows
    uuidCount,      \* how many values randomUUID has handed out
    \* extractFromDirectory
    sectionWork,    \* the flattened candidate list
    concurrency,    \* options.workers
    completed,      \* the running completed counter
    progressOut,    \* the [completed/total] of the progress lines printed
    onProgressCalls,\* the calls made to options.onProgress
    errorLogged,    \* candidates for which extractMemory logged an error
    \* parallelMap
    nextIndex,      \* the shared work cursor
    results,        \* the preallocated results buffer
    worker,         \* each worker()'s position
    \* the inference service
    svc,            \* per candidate, the outcomes the service may produce
    \* history of the run
    claimedBy,      \* per candidate, the workers that claimed its index
    writtenBy,      \* per candidate, the workers that wrote its slot, in order
    calls,          \* per candidate, how often the service was invoked
    callOutcome,    \* per candidate, what its (last) service call came to
    overtaken,      \* a call ended while a call of an earlier candidate ran
    \* the docs-to-memories CLI: parse output -> finalizeMemories
    dPhase,         \* which finalizeMemories calls were made
    allRawMemories, \* the RawMemory list the extraction accumulated
    appended,       \* the duplicates appended for the third call
    once,           \* finalizeMemories(allRawMemories)
    twice,          \* finalizeMemories(once)
    withDups,       \* finalizeMemories(allRawMemories ++ appended)
    dUuidCount,     \* how many values randomUUID has handed out
    \* the heuristic filter: shouldExtract
    lastIndex,      \* per RegExp object of the module, its lastIndex
    classified,     \* the shouldExtract calls made, with their results
    \* a call of one of the pure functions of the pipeline
    fnArgs,         \* its arguments
    fnLocal,        \* its local variables, while it runs
    fnDone,         \* whether it has returned
    fnResult        \* what it returned

poolVars == <<phase, memories, jsonFile, lanceTable, uuidCount, sectionWork,
              concurrency, completed, progressOut, onProgressCalls,
              errorLogged, nextIndex, results, worker, svc, claimedBy,
              writtenBy, calls, callOutcome, overtaken>>

dedupVars == <<dPhase, allRawMemories, appended, once, twice, withDups,
               dUuidCount>>

classVars == <<lastIndex, classified>>

fnVars == <<fnArgs, fnLocal, fnDone, fnResult>>

vars == <<poolVars, dedupVars, classVars, fnVars>>

\* What a worker-pool run leaves alone.
notPool == <<dedupVars, classVars, fnVars>>

\* What the finalizeMemories runs leave alone.
notDedup == <<poolVars, classVars, fnVars>>

\* What the shouldExtract calls leave alone.
notClass == <<poolVars, dedupVars, fnVars>>

\* What a call of a pure function leaves alone.
notFn == <<poolVars, dedupVars, classVars>>

\* ------------------------------------------------------------- data values
\* The two values a results slot holds besides a Memory.
EMPTY == [hole |-> TRUE]
NULL == [null |-> TRUE]
\* A file or table that does not exist, and one holding `rows`.
Absent == [exists |-> FALSE, rows |-> <<>>]
Holding(rows) == [exists |-> TRUE, rows |-> rows]

Min(a, b) == IF a < b THEN a ELSE b

Range(s) == {s[i] : i \in 1..Len(s)}

\* ------------------------------------------------------------------ RegExp
\* Strings are sequences of one-character strings. A RegExp is its source,
\* its flags and its body, a sequence of elements:
\*   Lit(chars)     the characters, literally
\*   WordB          \b
\*   Bol, Eol       ^ and $ (no m flag)
\*   Rep(cls, min)  a greedy run of at least min characters of the class:
\*                  "s" is \s, "w" is \w, "dot" is ., "any" is [\s\S]
IsSpace(c) == c \in {" ", "\n", "\t", "\r"}

UpperCase ==
    <<"A", "B", "C", "D", "E", "F", "G", "H", "I", "J", "K", "L", "M",
      "N", "O", "P", "Q", "R", "S", "T", "U", "V", "W", "X", "Y", "Z">>

LowerCase ==
    <<"a", "b", "c", "d", "e", "f", "g", "h", "i", "j", "k", "l", "m",
      "n", "o", "p", "q", "r", "s", "t", "u", "v", "w", "x", "y", "z">>

\* The character U+0060, which a string of this notation cannot hold.
BackQuote == "backquote"

Digits == {"0", "1", "2", "3", "4", "5", "6", "7", "8", "9"}

LowerOf == [c \in Range(UpperCase) |->
               LowerCase[CHOOSE i \in 1..26 : UpperCase[i] = c]]

ToLower(c) == IF c \in DOMAIN LowerOf THEN LowerOf[c] ELSE c

WordChars ==
    Range(UpperCase) \cup Range(LowerCase) \cup Digits \cup {"_"}

IsWordChar(c) == c \in WordChars

SetMin(S) == CHOOSE x \in S : \A y \in S : x <= y

SetMax(S) == CHOOSE x \in S : \A y \in S : y <= x

Lit(chars) == [t |-> "chars", lit |-> chars, cls |-> "", min |-> 0]
WordB == [t |-> "wordb", lit |-> <<>>, cls |-> "", min |-> 0]
Bol == [t |-> "start", lit |-> <<>>, cls |-> "", min |-> 0]
Eol == [t |-> "end", lit |-> <<>>, cls |-> "", min |-> 0]
Rep(cls, min) == [t |-> "class", lit |-> <<>>, cls |-> cls, min |-> min]

RegExp(source, flags, body) ==
    [source |-> source, flags |-> flags, body |-> body]

\* A matcher that compares the characters as they are, whatever the flags.
CanonicalizeExact(c, flags) == c

\* The character as the matcher compares it: case is ignored under the i flag.
Canonicalize(c, flags) == IF "i" \in flags THEN ToLower(c) ELSE c

\* The literal stands at position i of s.
LitAt(s, i, lit, flags) ==
    /\ i + Len(lit) - 1 <= Len(s)
    /\ \A k \in 1..Len(lit) :
           Canonicalize(s[i + k - 1], flags) = Canonicalize(lit[k], flags)

\* \b before the character at position i (i = Len(s) + 1: at the end).
AtWordBoundary(s, i) ==
    (i > 1 /\ IsWordChar(s[i - 1])) # (i <= Len(s) /\ IsWordChar(s[i]))

InClass(cls, c) ==
    CASE cls = "s" -> IsSpace(c)
      [] cls = "w" -> IsWordChar(c)
      [] cls = "dot" -> c \notin {"\n", "\r"}
      [] cls = "any" -> TRUE

\* The position after the longest run of class characters from position i.
RunEnd(s, i, cls) ==
    CHOOSE k \in i..(Len(s) + 1) :
        /\ k = Len(s) + 1 \/ ~InClass(cls, s[k])
        /\ \A j \in i..(k - 1) : InClass(cls, s[j])

\* The positions at which a match of the elements k.. of re that starts at
\* position i of s can end (the position after its last character), over all
\* the choices backtracking can make.
RECURSIVE MatchEnds(_, _, _, _)
MatchEnds(re, k, s, i) ==
    IF k > Len(re.body) THEN {i}
    ELSE LET e == re.body[k]
         IN  CASE e.t = "chars" ->
                    IF LitAt(s, i, e.lit, re.flags)
                    THEN MatchEnds(re, k + 1, s, i + Len(e.lit)) ELSE {}
               [] e.t = "wordb" ->
                    IF AtWordBoundary(s, i)
                    THEN MatchEnds(re, k + 1, s, i) ELSE {}
               [] e.t = "start" ->
                    IF i = 1 THEN MatchEnds(re, k + 1, s, i) ELSE {}
               [] e.t = "end" ->
                    IF i = Len(s) + 1 THEN MatchEnds(re, k + 1, s, i) ELSE {}
               [] e.t = "class" ->
                    UNION { MatchEnds(re, k + 1, s, j) :
                              j \in (i + e.min)..RunEnd(s, i, e.cls) }

\* RegExpBuiltinExec from the 0-based index `from`: whether there is a match
\* at or after it, and the 0-based index after the leftmost match (the
\* quantifiers are greedy: the longest one).
RegExpExec(re, s, from) ==
    LET starts == {i \in (from + 1)..(Len(s) + 1) : MatchEnds(re, 1, s, i) # {}}
    IN  IF starts = {} THEN [found |-> FALSE, end |-> 0]
        ELSE [found |-> TRUE,
              end |-> SetMax(MatchEnds(re, 1, s, SetMin(starts))) - 1]

\* An expression that keeps its lastIndex between calls whatever its flags.
IsGlobalAlways(re) == TRUE

\* re.global
IsGlobal(re) == "g" \in re.flags

\* re.test(s) when re.lastIndex is li: the result. Without the g flag the
\* search starts at 0.
RegExpTest(re, s, li) ==
    IF IsGlobal(re)
    THEN li <= Len(s) /\ RegExpExec(re, s, li).found
    ELSE RegExpExec(re, s, 0).found

\* re.lastIndex after re.test(s) when it was li before: without the g flag it
\* is left alone, with it it is the end of the match, or 0 if there is none.
LastIndexAfterTest(re, s, li) ==
    IF IsGlobal(re)
    THEN IF li > Len(s) THEN 0
         ELSE LET m == RegExpExec(re, s, li)
              IN  IF m.found THEN m.end ELSE 0
    ELSE li

\* String.prototype.trim on a sequence of characters.
RECURSIVE TrimStart(_)
TrimStart(s) ==
    IF s # <<>> /\ IsSpace(Head(s)) THEN TrimStart(Tail(s)) ELSE s

RECURSIVE TrimEnd(_)
TrimEnd(s) ==
    IF s # <<>> /\ IsSpace(s[Len(s)])
    THEN TrimEnd(SubSeq(s, 1, Len(s) - 1)) ELSE s

Trim(s) == TrimEnd(TrimStart(s))

\* ----------------------------------------------------------- shouldExtract
\* Strong signals - almost always actionable
STRONG_SIGNALS ==
  <<
    RegExp("good to know", {"i"},
           <<Lit(<<"g", "o", "o", "d", " ", "t", "o", " ", "k", "n", "o", "w">>)>>),
    RegExp("warning:", {"i"},
           <<Lit(<<"w", "a", "r", "n", "i", "n", "g", ":">>)>>),
    RegExp("note:", {"i"},
           <<Lit(<<"n", "o", "t", "e", ":">>)>>),
    RegExp("important:", {"i"},
           <<Lit(<<"i", "m", "p", "o", "r", "t", "a", "n", "t", ":">>)>>),
    RegExp("\\bdon't\\b", {"i"},
           <<WordB, Lit(<<"d", "o", "n", "'", "t">>), WordB>>),
    RegExp("\\bavoid\\b", {"i"},
           <<WordB, Lit(<<"a", "v", "o", "i", "d">>), WordB>>),
    RegExp("instead of", {"i"},
           <<Lit(<<"i", "n", "s", "t", "e", "a", "d", " ", "o", "f">>)>>),
    RegExp("prefer\\s+\\w+\\s+over", {"i"},
           <<Lit(<<"p", "r", "e", "f", "e", "r">>), Rep("s", 1), Rep("w", 1), Rep("s", 1),
             Lit(<<"o", "v", "e", "r">>)>>),
    RegExp("common mistake", {"i"},
           <<Lit(<<"c", "o", "m", "m", "o", "n", " ", "m", "i", "s", "t", "a", "k", "e">>)>>),
    RegExp("\\berror\\b.*\\bwhen\\b", {"i"},
           <<WordB, Lit(<<"e", "r", "r", "o", "r">>), WordB, Rep("dot", 0),
             WordB, Lit(<<"w", "h", "e", "n">>), WordB>>)
  >>

\* Medium signals - actionable if has context
MEDIUM_SIGNALS ==
  <<
    RegExp("{backquote}{3}\\w+", {},
           <<Lit(<<BackQuote, BackQuote, BackQuote>>), Rep("w", 1)>>),
    RegExp("for example", {"i"},
           <<Lit(<<"f", "o", "r", " ", "e", "x", "a", "m", "p", "l", "e">>)>>),
    RegExp("you can", {"i"},
           <<Lit(<<"y", "o", "u", " ", "c", "a", "n">>)>>),
    RegExp("you should", {"i"},
           <<Lit(<<"y", "o", "u", " ", "s", "h", "o", "u", "l", "d">>)>>),
    RegExp("make sure", {"i"},
           <<Lit(<<"m", "a", "k", "e", " ", "s", "u", "r", "e">>)>>),
    RegExp("be careful", {"i"},
           <<Lit(<<"b", "e", " ", "c", "a", "r", "e", "f", "u", "l">>)>>)
  >>

\* Skip patterns
SKIP_PATTERNS ==
  <<
    RegExp("^version history$", {"i"},
           <<Bol, Lit(<<"v", "e", "r", "s", "i", "o", "n", " ", "h", "i", "s", "t", "o", "r", "y">>), Eol>>),
    RegExp("^installation$", {"i"},
           <<Bol, Lit(<<"i", "n", "s", "t", "a", "l", "l", "a", "t", "i", "o", "n">>), Eol>>),
    RegExp("^setup$", {"i"},
           <<Bol, Lit(<<"s", "e", "t", "u", "p">>), Eol>>)
  >>

\* /^\s*\|.*\|\s*$/, a new RegExp object in every evaluation of the literal.
TABLE_LINE ==
    RegExp("^\\s*\\|.*\\|\\s*$", {},
           <<Bol, Rep("s", 0), Lit(<<"|">>), Rep("dot", 0), Lit(<<"|">>),
             Rep("s", 0), Eol>>)

\* The RegExp objects the module creates once, when it is loaded.
ModuleRegExps == STRONG_SIGNALS \o MEDIUM_SIGNALS \o SKIP_PATTERNS

\* Their lastIndex when created.
FreshLastIndex == [src \in {re.source : re \in Range(ModuleRegExps)} |-> 0]

\* content.split("\n"): the lines, each with the position of the break
\* before it (0 for the first).
SplitLines(s) ==
    LET breaks == {0} \cup {i \in 1..Len(s) : s[i] = "\n"} \cup {Len(s) + 1}
    IN  { [at |-> b,
           line |-> SubSeq(s, b + 1, SetMin({c \in breaks : c > b}) - 1)] :
            b \in breaks \ {Len(s) + 1} }

\* The patterns of the loop `for (const pattern of patterns) if
\* (pattern.test(s)) return` that are tested: those up to the first match.
TestedUntilHit(patterns, s, li) ==
    LET hits == {k \in 1..Len(patterns) :
                    RegExpTest(patterns[k], s, li[patterns[k].source])}
    IN  IF hits = {} THEN patterns ELSE SubSeq(patterns, 1, SetMin(hits))

\* Patterns that match whatever the text.
MatchingAll(patterns, s, li) == patterns

\* The patterns for which pattern.test(s) is true.
Matching(patterns, s, li) ==
    SelectSeq(patterns, LAMBDA re : RegExpTest(re, s, li[re.source]))

\* Every lastIndex after each of `tested` was tested once on s. The patterns
\* are different RegExp objects, so a test changes no lastIndex but its own.
AfterTests(tested, s, li) ==
    [src \in DOMAIN li |->
        LET ks == {k \in 1..Len(tested) : tested[k].source = src}
        IN  IF ks = {} THEN li[src]
            ELSE LastIndexAfterTest(tested[CHOOSE k \in ks : TRUE], s, li[src])]

\* The content length above which one medium signal is enough.
MediumLength == 300

\* The content length under which a section without signals is "too short".
ShortLength == 100

Verdict(extract, reason, li) ==
    [extract |-> extract, reason |-> reason, lastIndex |-> li]

\* shouldExtract(section) when the module's RegExp objects have the lastIndex
\* values li: the returned { extract, reason }, and the lastIndex values after.
shouldExtract(section, li) ==
    LET content == section.content
        title == section.title
        skipTested == TestedUntilHit(SKIP_PATTERNS, title, li)
        afterSkip == AfterTests(skipTested, title, li)
        lines == {l \in SplitLines(content) : Trim(l.line) # <<>>}
        tableLines == {l \in lines : RegExpTest(TABLE_LINE, l.line, 0)}
        strongSignals == Matching(STRONG_SIGNALS, content, li)
        mediumSignals == Matching(MEDIUM_SIGNALS, content, li)
        afterSignals ==
            AfterTests(STRONG_SIGNALS \o MEDIUM_SIGNALS, content, afterSkip)
    IN  IF Matching(skipTested, title, li) # <<>>
        THEN Verdict(FALSE, "skip pattern", afterSkip)
        ELSE IF /\ Cardinality(lines) > 3
                /\ 10 * Cardinality(tableLines) > 7 * Cardinality(lines)
        THEN Verdict(FALSE, "mostly table", afterSkip)
        ELSE IF Len(strongSignals) > 0
        THEN Verdict(TRUE, "strong signal", afterSignals)
        ELSE IF Len(mediumSignals) >= 2
        THEN Verdict(TRUE, "multiple medium", afterSignals)
        ELSE IF Len(mediumSignals) = 1 /\ Len(content) > MediumLength
        THEN Verdict(TRUE, "medium + length", afterSignals)
        ELSE IF Len(content) < ShortLength
        THEN Verdict(FALSE, "too short", afterSignals)
        ELSE Verdict(FALSE, "no signals", afterSignals)

\* No section was classified yet.
ClassifyIdle ==
    /\ lastIndex = FreshLastIndex
    /\ classified = <<>>

\* No call of a pure function is under way.
FnIdle ==
    /\ fnArgs = <<>>
    /\ fnLocal = <<>>
    /\ fnDone = FALSE
    /\ fnResult = <<>>

\* The accepted sections of a small corpus, flattened as extractFromDirectory
\* flattens them: by file in sorted path order, by position within the file.
\* a.mdx has two sections titled Usage.
CorpusSections ==
    << [file |-> "a.mdx", title |-> "Usage"],
       [file |-> "a.mdx", title |-> "Usage"],
       [file |-> "a.mdx", title |-> "Caveats"],
       [file |-> "b.mdx", title |-> "Usage"],
       [file |-> "b.mdx", title |-> "Caveats"] >>

\* What one call of the claude CLI can come to, by name: it exits 0 having
\* written the word SKIP or one JSON object, it exits non-zero, or it never
\* exits.
OutSkip == "SKIP"
OutExit == "exit 1"
OutHang == "no answer"
OutObjA == "object A"
OutObjB == "object B"
Outcomes == {OutSkip, OutExit, OutHang, OutObjA, OutObjB}

\* The process result behind each name.
ProcessResult(o) ==
    CASE o = OutSkip -> [kind |-> "stdout", text |-> [word |-> "SKIP"]]
      [] o = OutExit -> [kind |-> "exit"]
      [] o = OutHang -> [kind |-> "hang"]
      [] o = OutObjA ->
            [kind |-> "stdout",
             text |-> [object |-> [trigger |-> "updateTag next/cache",
                                   rule |-> "Use updateTag after a write",
                                   example |-> <<>>]]]
      [] o = OutObjB ->
            [kind |-> "stdout",
             text |-> [object |-> [trigger |-> "next/link Link href",
                                   rule |-> "Use Link for navigation",
                                   example |-> <<"<Link href>">>]]]

\* ---------------------------------------------------------- extractMemory
\* What extractMemory returns, whether it logged an error, and whether it
\* threw.
Returned(v) == [value |-> v, logged |-> FALSE, thrown |-> FALSE]
Caught == [value |-> NULL, logged |-> TRUE, thrown |-> FALSE]
Thrown == [value |-> NULL, logged |-> FALSE, thrown |-> TRUE]

\* The try block after the claude call exited 0 with `text` on stdout.
MemoryOfText(section, docPath, text) ==
    IF "word" \in DOMAIN text
    THEN Returned(NULL)
    ELSE LET parsed == text.object
         IN  IF parsed.trigger = "" \/ parsed.rule = ""
             THEN Returned(NULL)
             ELSE Returned([trigger |-> parsed.trigger,
                            rule |-> parsed.rule,
                            source |-> docPath,
                            section |-> section.title,
                            example |-> parsed.example])

\* extractMemory without its try/catch: a failed claude call throws.
extractMemoryUncaught(section, docPath, out) ==
    IF out.kind = "exit"
    THEN Thrown
    ELSE MemoryOfText(section, docPath, out.text)

\* One extractMemory call whose claude call came to `out` (never OutHang: then
\* the await never resumes).  A non-zero exit makes the shell call throw, and
\* the catch logs the error and returns null.
extractMemory(section, docPath, out) ==
    IF out.kind = "exit"
    THEN Caught
    ELSE MemoryOfText(section, docPath, out.text)

\* ------------------------------------------------------------ parallelMap
\* The claim without the increment: the cursor stays where it was.
ClaimIndexNoIncrement(cursor) == [index |-> cursor, next |-> cursor]

\* const index = nextIndex++ : the index claimed and the cursor left behind.
ClaimIndex(cursor) == [index |-> cursor, next |-> cursor + 1]

\* results.push(value): the value goes to the first slot not yet written.
StoreResultPush(buf, index, value) ==
    LET k == CHOOSE k \in 1..Len(buf) :
                 buf[k] = EMPTY /\ \A j \in 1..(k - 1) : buf[j] # EMPTY
    IN  [buf EXCEPT ![k] = value]

\* results[index] = <value> (indices are 0-based in the code, 1-based here).
StoreResult(buf, index, value) == [buf EXCEPT ![index + 1] = value]

\* Array(Math.min(concurrency, items.length))
WorkerCount(conc, n) == Min(conc, n)

Workers == 1..WorkerCount(concurrency, Len(sectionWork))

Idle == [pc |-> "unstarted", index |-> 0, answers |-> FALSE, value |-> EMPTY]

\* One pass of worker()'s loop head, run by worker w without suspension:
\* test the cursor, claim, call fn, which starts a claude call that the
\* service will answer (ans) or never answer.
LoopHead(w, ans) ==
    IF nextIndex < Len(sectionWork)
    THEN LET c == ClaimIndex(nextIndex)
         IN  /\ IF ans THEN svc[c.index + 1] \ {OutHang} # {}
                       ELSE OutHang \in svc[c.index + 1]
             /\ nextIndex' = c.next
             /\ worker' = [worker EXCEPT ![w] =
                    [pc |-> "awaitFn", index |-> c.index, answers |-> ans,
                     value |-> EMPTY]]
             /\ claimedBy' = [claimedBy EXCEPT ![c.index + 1] = @ \cup {w}]
             /\ calls' = [calls EXCEPT ![c.index + 1] = @ + 1]
    ELSE /\ ans = FALSE
         /\ worker' = [worker EXCEPT ![w] =
                [pc |-> "done", index |-> 0, answers |-> FALSE,
                 value |-> EMPTY]]
         /\ UNCHANGED <<nextIndex, claimedBy, calls>>

\* ---------------------------------------------------- extractFromDirectory
\* allMemories.filter(m => m !== null); filter passes over unwritten slots.
NonNull(buf) == SelectSeq(buf, LAMBDA m : m # NULL /\ m # EMPTY)

\* The candidate lists of a generated run: the runs of at most MaxCands
\* consecutive sections of the corpus.
WorkLists ==
    { SubSeq(CorpusSections, p[1], p[2]) :
        p \in { q \in (1..Len(CorpusSections)) \X (0..Len(CorpusSections)) :
                   q[2] - q[1] + 1 \in 0..MaxCands } }

\* Scenario C of the specification: 10 candidates, 3 workers; 2 calls answer
\* SKIP, 1 fails, 7 answer JSON and 2 of those (sections 3 and 4 of a.mdx,
\* both titled Usage) give the same text and context.
ScenarioWork ==
    [i \in 1..10 |->
        IF i <= 6
        THEN [file |-> "a.mdx",
              title |-> IF i \in {3, 4} THEN "Usage" ELSE "Caveats"]
        ELSE [file |-> "b.mdx", title |-> "Usage"]]

ScenarioSvc ==
    [i \in 1..10 |->
        IF i \in {2, 7} THEN {OutSkip}
        ELSE IF i = 5 THEN {OutExit}
        ELSE IF i \in {3, 4, 8} THEN {OutObjA}
        ELSE {OutObjB}]

InitPool(work, conc, service) ==
    /\ phase = "start"
    /\ memories = <<>>
    /\ jsonFile = Absent
    /\ lanceTable = Absent
    /\ uuidCount = 0
    /\ sectionWork = work
    /\ concurrency = conc
    /\ completed = 0
    /\ progressOut = <<>>
    /\ onProgressCalls = <<>>
    /\ errorLogged = {}
    /\ nextIndex = 0
    /\ results = [i \in 1..Len(work) |-> EMPTY]
    /\ worker = [w \in 1..WorkerCount(conc, Len(work)) |-> Idle]
    /\ svc = service
    /\ claimedBy = [i \in 1..Len(work) |-> {}]
    /\ writtenBy = [i \in 1..Len(work) |-> <<>>]
    /\ calls = [i \in 1..Len(work) |-> 0]
    /\ callOutcome = [i \in 1..Len(work) |-> OutHang]
    /\ overtaken = FALSE

\* No finalizeMemories run is under way.
DedupIdle ==
    /\ dPhase = "idle"
    /\ allRawMemories = <<>>
    /\ appended = <<>>
    /\ once = <<>>
    /\ twice = <<>>
    /\ withDups = <<>>
    /\ dUuidCount = 0

Init ==
    /\ \/ \E work \in WorkLists, conc \in 1..MaxWorkers :
              InitPool(work, conc, [i \in 1..Len(work) |-> Outcomes])
       \/ InitPool(ScenarioWork, 3, ScenarioSvc)
    /\ DedupIdle
    /\ ClassifyIdle
    /\ FnIdle

poolRun == <<nextIndex, results, worker, claimedBy, writtenBy, calls,
             callOutcome, overtaken, completed, progressOut, errorLogged>>
poolOutputs == <<memories, jsonFile, lanceTable, uuidCount>>
poolInputs == <<sectionWork, concurrency, svc, onProgressCalls>>

\* extractFromDirectory up to the call of parallelMap: with no section to
\* extract it returns [] and cmdExtractMemories exits with status 1.
StartExtraction ==
    /\ phase = "start"
    /\ phase' = IF Len(sectionWork) = 0 THEN "exit1" ELSE "spawning"
    /\ UNCHANGED <<poolRun, poolOutputs, poolInputs, notPool>>

\* .map(() => worker()): the workers are started one after the other, each
\* running to its first await before the next starts.
SpawnWorker(w) ==
    /\ phase = "spawning"
    /\ w \in Workers
    /\ worker[w].pc = "unstarted"
    /\ \A v \in Workers : v < w => worker[v].pc # "unstarted"
    /\ \E ans \in BOOLEAN : LoopHead(w, ans)
    /\ phase' = IF w = WorkerCount(concurrency, Len(sectionWork))
                THEN "running" ELSE "spawning"
    /\ UNCHANGED <<results, writtenBy, callOutcome, overtaken, completed,
                   progressOut, errorLogged, poolOutputs, poolInputs, notPool>>

\* The claude call of worker w ends as o: extractMemory returns, and the
\* callback given to parallelMap counts it, prints the progress line and
\* returns.
FnComplete(w, o) ==
    /\ phase = "running"
    /\ w \in Workers
    /\ worker[w].pc = "awaitFn"
    /\ worker[w].answers
    /\ o \in svc[worker[w].index + 1] \ {OutHang}
    /\ LET i == worker[w].index + 1
           item == sectionWork[i]
           r == extractMemory([title |-> item.title], item.file,
                              ProcessResult(o))
       IN  /\ callOutcome' = [callOutcome EXCEPT ![i] = o]
           /\ IF r.thrown
              THEN /\ worker' = [worker EXCEPT ![w].pc = "rejected"]
                   /\ phase' = "fatal"
                   /\ UNCHANGED <<completed, progressOut, errorLogged>>
              ELSE /\ worker' = [worker EXCEPT ![w].pc = "fnResolved",
                                               ![w].value = r.value]
                   /\ completed' = completed + 1
                   /\ progressOut' =
                          Append(progressOut,
                                 <<completed + 1, Len(sectionWork)>>)
                   /\ errorLogged' =
                          IF r.logged THEN errorLogged \cup {i}
                                      ELSE errorLogged
                   /\ phase' = phase
    /\ overtaken' =
           (overtaken \/ \E v \in Workers :
                            /\ worker[v].pc = "awaitFn"
                            /\ worker[v].index < worker[w].index)
    /\ UNCHANGED <<nextIndex, results, claimedBy, writtenBy, calls,
                   poolOutputs, poolInputs, notPool>>

\* worker w resumes after its await: it stores the value in the slot of the
\* index it claimed and goes round the loop.
WorkerResume(w) ==
    /\ phase = "running"
    /\ w \in Workers
    /\ worker[w].pc = "fnResolved"
    /\ results' = StoreResult(results, worker[w].index, worker[w].value)
    /\ writtenBy' = [writtenBy EXCEPT ![worker[w].index + 1] = Append(@, w)]
    /\ \E ans \in BOOLEAN : LoopHead(w, ans)
    /\ UNCHANGED <<phase, callOutcome, overtaken, completed, progressOut, errorLogged,
                   poolOutputs, poolInputs, notPool>>

\* Promise.all(workers) resolves; extractFromDirectory returns the non-null
\* results and cmdExtractMemories exits with status 1 when there are none.
PoolReturn ==
    /\ phase = "running"
    /\ \A w \in Workers : worker[w].pc = "done"
    /\ memories' = NonNull(results)
    /\ phase' = IF NonNull(results) = <<>> THEN "exit1" ELSE "extracted"
    /\ UNCHANGED <<poolRun, jsonFile, lanceTable, uuidCount, poolInputs, notPool>>

\* --------------------------------------------------------- writeToLanceDB
\* crypto.randomUUID(): a value no earlier call returned; the k-th call of a
\* run returns k.
randomUUID(count) == count + 1

\* The embedding model is a function of the text embedded.
embed(text) == <<"vector", text>>

\* let context = m.rule; if (m.example) ...; context += [Source: ...]
\* The template's pieces, in order.
LanceContext(m) ==
    <<m.rule>>
    \o (IF m.example # <<>> /\ m.example # <<"">>
        THEN <<"\n\nExample:\n", m.example[1]>> ELSE <<>>)
    \o <<"\n\n[Source: ", m.source, " - ", m.section, "]">>

\* The row pushed for the i-th memory when `count` ids were handed out before
\* the call.
LanceRow(m, i, count) ==
    [id |-> randomUUID(count + i - 1),
     text |-> m.trigger,
     context |-> LanceContext(m),
     vector |-> embed(m.trigger)]

\* The rows writeToLanceDB creates the table with.
LanceRows(mems, count) == [i \in 1..Len(mems) |-> LanceRow(mems[i], i, count)]

\* await writeFile(jsonPath, JSON.stringify(memories, null, 2)); with
\* --skip-lancedb the command is complete after it.
WriteJsonBackup ==
    /\ phase = "extracted"
    /\ jsonFile' = Holding(memories)
    /\ \E skipLanceDb \in BOOLEAN :
           phase' = IF skipLanceDb THEN "complete" ELSE "jsonWritten"
    /\ UNCHANGED <<poolRun, memories, lanceTable, uuidCount, poolInputs, notPool>>

\* writeToLanceDB(memories, lanceDir): embed every memory under a new id,
\* drop the table if present, create it from the rows.
WriteToLanceDB ==
    /\ phase = "jsonWritten"
    /\ lanceTable' = Holding(LanceRows(memories, uuidCount))
    /\ uuidCount' = uuidCount + Len(memories)
    /\ phase' = "complete"
    /\ UNCHANGED <<poolRun, memories, jsonFile, poolInputs, notPool>>

Next ==
    \/ StartExtraction
    \/ \E w \in Workers : SpawnWorker(w)
    \/ \E w \in Workers, o \in Outcomes : FnComplete(w, o)
    \/ \E w \in Workers : WorkerResume(w)
    \/ PoolReturn
    \/ WriteJsonBackup
    \/ WriteToLanceDB

Spec == Init /\ [][Next]_vars

\* The event loop runs a continuation that is ready, and a call the service
\* answers does end: a run does not stop while a step is possible.
SpecFair == Spec /\ WF_vars(Next)

\* ------------------------------------------------- worker-pool properties
N == Len(sectionWork)

\* parallelMap was called and has returned.
PoolReturned ==
    N > 0 /\ phase \in {"extracted", "jsonWritten", "complete", "exit1"}

\* What extractMemory returns for candidate i given what its call came to.
ValueOfCall(i) ==
    extractMemory([title |-> sectionWork[i].title], sectionWork[i].file,
                  ProcessResult(callOutcome[i])).value

\* C1: no candidate index is ever claimed by two workers, no slot of the
\* results buffer is ever written twice or by a worker that did not claim its
\* index, and when parallelMap returns every slot was written exactly once.
C1_ExclusiveClaimSingleWrite ==
    \A i \in 1..N :
        /\ Cardinality(claimedBy[i]) <= 1
        /\ Len(writtenBy[i]) <= 1
        /\ \A k \in 1..Len(writtenBy[i]) : writtenBy[i][k] \in claimedBy[i]
        /\ PoolReturned => Len(writtenBy[i]) = 1

\* C1 witness: a pool of two workers has returned, both workers wrote slots
\* and one of them wrote more than one.
C1_Witness ==
    /\ PoolReturned
    /\ WorkerCount(concurrency, N) = 2
    /\ \E i, j, k \in 1..N :
           /\ i # j /\ j # k /\ i # k
           /\ writtenBy[i] = <<1>> /\ writtenBy[j] = <<1>>
           /\ writtenBy[k] = <<2>>

\* C2: when parallelMap returns, slot i holds the value of the call made for
\* candidate i, and extractFromDirectory returns the non-null values in
\* candidate order, each carrying the file and section title of its own
\* candidate: the returned sequence is a function of the candidates and of
\* what each candidate's call came to, not of the worker count or of the
\* order in which the calls ended.
C2_ResultsInCandidateOrder ==
    PoolReturned =>
        /\ results = [i \in 1..N |-> ValueOfCall(i)]
        /\ memories = NonNull([i \in 1..N |-> ValueOfCall(i)])
        /\ \A i \in 1..N :
               results[i] # NULL =>
                   /\ results[i].source = sectionWork[i].file
                   /\ results[i].section = sectionWork[i].title

\* C2 witness: a pool of several workers has returned two different memories
\* after a call ended before the call of an earlier candidate.
C2_Witness ==
    /\ PoolReturned
    /\ concurrency >= 2
    /\ overtaken
    /\ Len(memories) >= 2
    /\ memories[1].trigger # memories[2].trigger

PairsOf(rows) == {<<rows[k].text, rows[k].context>> : k \in 1..Len(rows)}

IdsOf(rows) == {rows[k].id : k \in 1..Len(rows)}

\* The run completed with the table written.
TableWritten == phase = "complete" /\ lanceTable.exists

\* C4 as stated: the rows persisted by a worker-pool run are as many as the
\* distinct (text, context) pairs among its successful results and have
\* distinct ids; in Scenario C they are 6.
C4_PersistedOnePerDistinctPair ==
    TableWritten =>
        /\ Len(lanceTable.rows) = Cardinality(PairsOf(lanceTable.rows))
        /\ Cardinality(IdsOf(lanceTable.rows)) = Len(lanceTable.rows)
        /\ (sectionWork = ScenarioWork /\ svc = ScenarioSvc)
               => Len(lanceTable.rows) = 6

\* The id a record carries, if it carries one.
IdField(m) == IF "id" \in DOMAIN m THEN <<m.id>> ELSE <<>>

\* C7 as stated: every memory handed to the writers carries an id, ids are
\* pairwise distinct, and every backend persists a memory under the id it
\* was handed over with.
C7_PersistedIdIsFinalizedId ==
    TableWritten =>
        /\ Cardinality(IdsOf(lanceTable.rows)) = Len(lanceTable.rows)
        /\ \A k \in 1..Len(memories) :
               /\ IdField(memories[k]) # <<>>
               /\ IdField(lanceTable.rows[k]) = IdField(memories[k])
               /\ IdField(jsonFile.rows[k]) = IdField(memories[k])

\* C8 as stated: the pool eventually returns with every slot filled.
C8_PoolEventuallyReturns ==
    <>(N = 0 \/ (PoolReturned /\ \A i \in 1..N : results[i] # EMPTY))

\* C9 as stated: when the pool returns, options.onProgress has been called
\* once per candidate, with the counts 1, 2, ..., N and the total N.
C9_OnProgressCalledPerCompletion ==
    PoolReturned => onProgressCalls = [k \in 1..N |-> <<k, N>>]

\* ======================================================= finalizeMemories
\* Longest RawMemory list given to finalizeMemories.
MaxItems == 3

\* The JSON objects a model answer may hold, "text" and "context" as
\* characters.
ModelObjects ==
    LET TxtA == <<"a">>
        TxtAPadded == <<" ", "a">>
        TxtAB == <<"a", "\n", "-", "-", "-", "\n", "b">>
        CtxC == <<"c">>
        CtxCPadded == <<"c", "\n">>
        CtxBC == <<"b", "\n", "-", "-", "-", "\n", "c">>
    IN  { [text |-> t, context |-> c] :
            t \in {TxtA, TxtAPadded, TxtAB}, c \in {CtxC, CtxCPadded, CtxBC} }

ChunkSources == {"a.md", "b.md"}

\* What parseMemoriesFromModelOutput pushes for one parsed object of a chunk
\* of `source`: nothing unless text and context are non-empty when trimmed,
\* else the trimmed strings with the source.
RawMemoriesOfObject(obj, source) ==
    IF Trim(obj.text) # <<>> /\ Trim(obj.context) # <<>>
    THEN << [text |-> Trim(obj.text),
             context |-> Trim(obj.context),
             source |-> source] >>
    ELSE <<>>

\* The RawMemory values the extraction can accumulate.
ParserItems ==
    UNION { Range(RawMemoriesOfObject(o, src)) :
              o \in ModelObjects, src \in ChunkSources }

\* `${item.text}\n---\n${item.context}`
DedupKey(item) == item.text \o <<"\n", "-", "-", "-", "\n">> \o item.context

\* A Map that never finds a key.
SeenHasNever(keys, key) == FALSE

\* seen.has(key), `keys` being the keys of the Map in insertion order.
SeenHas(keys, key) == key \in Range(keys)

\* The loop of finalizeMemories from item i on: `keys` and `out` are the keys
\* and the values of the Map in insertion order, `count` the ids handed out.
RECURSIVE FinalizeFrom(_, _, _, _, _)
FinalizeFrom(items, i, keys, out, count) ==
    IF i > Len(items)
    THEN [memories |-> out, count |-> count]
    ELSE IF SeenHas(keys, DedupKey(items[i]))
    THEN FinalizeFrom(items, i + 1, keys, out, count)
    ELSE FinalizeFrom(items, i + 1,
                      Append(keys, DedupKey(items[i])),
                      Append(out, [id |-> randomUUID(count),
                                   text |-> items[i].text,
                                   context |-> items[i].context,
                                   source |-> items[i].source]),
                      count + 1)

\* finalizeMemories(items) when `count` ids were handed out before: the
\* memories, Array.from(seen.values()), and the ids handed out after.
finalizeMemories(items, count) == FinalizeFrom(items, 1, <<>>, <<>>, count)

\* The elements of s at the indices in I, in order.
RECURSIVE Pick(_, _, _)
Pick(s, I, i) ==
    IF i > Len(s) THEN <<>>
    ELSE (IF i \in I THEN <<s[i]>> ELSE <<>>) \o Pick(s, I, i + 1)

\* No worker-pool run is under way.
PoolIdle == InitPool(<<>>, 1, <<>>)

InitDedup ==
    /\ PoolIdle
    /\ dPhase = "raw"
    /\ allRawMemories \in UNION { [1..n -> ParserItems] : n \in 0..MaxItems }
    /\ appended = <<>>
    /\ once = <<>>
    /\ twice = <<>>
    /\ withDups = <<>>
    /\ dUuidCount = 0
    /\ ClassifyIdle
    /\ FnIdle

\* const memories = finalizeMemories(allRawMemories)
Finalize ==
    /\ dPhase = "raw"
    /\ LET r == finalizeMemories(allRawMemories, dUuidCount)
       IN  once' = r.memories /\ dUuidCount' = r.count
    /\ dPhase' = "once"
    /\ UNCHANGED <<allRawMemories, appended, twice, withDups, notDedup>>

\* finalizeMemories applied to its own output.
FinalizeAgain ==
    /\ dPhase = "once"
    /\ LET r == finalizeMemories(once, dUuidCount)
       IN  twice' = r.memories /\ dUuidCount' = r.count
    /\ dPhase' = "twice"
    /\ UNCHANGED <<allRawMemories, appended, once, withDups, notDedup>>

\* finalizeMemories applied to the list with copies of some of its elements
\* appended.
FinalizeWithDuplicates ==
    /\ dPhase = "twice"
    /\ \E I \in SUBSET (1..Len(allRawMemories)) :
           LET dups == Pick(allRawMemories, I, 1)
               r == finalizeMemories(allRawMemories \o dups, dUuidCount)
           IN  /\ appended' = dups
               /\ withDups' = r.memories
               /\ dUuidCount' = r.count
    /\ dPhase' = "done"
    /\ UNCHANGED <<allRawMemories, once, twice, notDedup>>

NextDedup == Finalize \/ FinalizeAgain \/ FinalizeWithDuplicates

SpecDedup == InitDedup /\ [][NextDedup]_vars

\* -------------------------------------------- properties of finalizeMemories
\* A Memory without its id.
WithoutId(m) == [text |-> m.text, context |-> m.context, source |-> m.source]

WithoutIds(mems) == [i \in 1..Len(mems) |-> WithoutId(mems[i])]

\* Two raw results have the same trimmed text and the same trimmed context.
SamePair(a, b) ==
    Trim(a.text) = Trim(b.text) /\ Trim(a.context) = Trim(b.context)

\* The indices of the first members of the (text, context) groups of items.
FirstOfGroup(items) ==
    { i \in 1..Len(items) : \A j \in 1..(i - 1) : ~SamePair(items[j], items[i]) }

Finalized == dPhase \in {"once", "twice", "done"}

\* C5: finalizeMemories merges two raw results exactly when their trimmed
\* text and their trimmed context are both equal: its output is one Memory per
\* group, the first member of each group with its source, in the order of the
\* first occurrences.
C5_OneMemoryPerTextContextPair ==
    Finalized =>
        WithoutIds(once)
            = Pick(allRawMemories, FirstOfGroup(allRawMemories), 1)

\* C6 as stated: finalizeMemories on L, on its own output and on L with
\* duplicates appended yields the same set of Memory values.
C6_SameMemorySet ==
    dPhase = "done" =>
        /\ Range(twice) = Range(once)
        /\ Range(withDups) = Range(once)

\* C6: finalizeMemories on L, on its own output and on L with duplicates of
\* its elements appended yields the same memories up to their ids: as many of
\* them, with the same (text, context, source) values.
C6_SameMemoriesUpToIds ==
    dPhase = "done" =>
        /\ Len(twice) = Len(once)
        /\ Len(withDups) = Len(once)
        /\ Range(WithoutIds(twice)) = Range(WithoutIds(once))
        /\ Range(WithoutIds(withDups)) = Range(WithoutIds(once))

\* All three runs are done on a list in which two results were merged and two
\* were kept apart, duplicates of which were appended for the third run.
C6_Witness ==
    /\ dPhase = "done"
    /\ appended # <<>>
    /\ Len(once) = 2
    /\ Len(allRawMemories) = 3

\* ================================================= the heuristic filter
\* Most shouldExtract calls of a run.
MaxClassified == 3

\* n characters that belong to no pattern.
Pad(n) == [i \in 1..n |-> "."]

Section(level, title, content) ==
    [level |-> level, title |-> title, content |-> content]

\* Sections as parseMarkdownSections leaves them: one per reason shouldExtract
\* can give, and one that differs from another in its level only.
Sections ==
    LET TitleSetup ==
            <<"S", "e", "t", "u", "p">>
        TitleUsage ==
            <<"U", "s", "a", "g", "e">>
        TitleOptions ==
            <<"O", "p", "t", "i", "o", "n", "s">>
        TextNote ==
            <<"N", "o", "t", "e", ":", " ", "r", "u", "n", " ", "i", "t", " ", "f",
              "i", "r", "s", "t", ".">>
        TextInsteadOf ==
            <<"U", "s", "e", " ", "t", "h", "i", "s", " ", "i", "n", "s", "t", "e",
              "a", "d", " ", "o", "f", " ", "t", "h", "a", "t", ".">>
        TextTable ==
            <<"|", " ", "a", " ", "|", " ", "b", " ", "|", "\n", "|", "-", "-", "-",
              "|", "-", "-", "-", "|", "\n", "|", " ", "i", "n", "s", "t", "e", "a",
              "d", " ", "o", "f", " ", "|", " ", "c", " ", "|", "\n", "|", " ", "d",
              " ", "|", " ", "e", " ", "|">>
        TextCode ==
            <<BackQuote, BackQuote, BackQuote, "t", "s", "\n", "r", "u", "n", "(",
              ")", "\n", BackQuote, BackQuote, BackQuote, "\n", "F", "o", "r", " ",
              "e", "x", "a", "m", "p", "l", "e", " ", "r", "u", "n", " ", "i", "t",
              ".">>
        TextYouCan ==
            <<"Y", "o", "u", " ", "c", "a", "n", " ", "d", "o", " ", "i", "t", ".">>
    IN  { Section(2, TitleSetup, TextNote),
          Section(2, TitleUsage, TextInsteadOf),
          Section(3, TitleUsage, TextInsteadOf),
          Section(2, TitleOptions, TextTable),
          Section(2, TitleUsage, TextCode),
          Section(2, TitleUsage, TextYouCan),
          Section(2, TitleUsage,
                  TextYouCan \o Pad(MediumLength + 1 - Len(TextYouCan))),
          Section(3, TitleOptions, Pad(ShortLength)) }

InitClassify ==
    /\ PoolIdle
    /\ DedupIdle
    /\ ClassifyIdle
    /\ FnIdle

\* const { extract, reason } = shouldExtract(section)
Classify(section) ==
    /\ Len(classified) < MaxClassified
    /\ LET r == shouldExtract(section, lastIndex)
       IN  /\ lastIndex' = r.lastIndex
           /\ classified' = Append(classified,
                                   [section |-> section,
                                    extract |-> r.extract,
                                    reason |-> r.reason])
    /\ UNCHANGED notClass

NextClassify == \E section \in Sections : Classify(section)

SpecClassify == InitClassify /\ [][NextClassify]_vars

\* ----------------------------------------------- properties of shouldExtract
\* C10: classification is a function of title and content alone: two
\* shouldExtract calls on sections with equal title and equal content return
\* the same decision and the same reason, whatever was classified before
\* either of them.
C10_ClassificationIsFunctionOfTitleAndContent ==
    \A i, j \in DOMAIN classified :
        (/\ classified[i].section.title = classified[j].section.title
         /\ classified[i].section.content = classified[j].section.content)
        => /\ classified[i].extract = classified[j].extract
           /\ classified[i].reason = classified[j].reason

\* Two different sections with the same title and content were classified,
\* the first before anything else, the second after it and after a section
\* with another content; the first was accepted for a strong signal.
C10_Witness ==
    /\ Len(classified) = 3
    /\ classified[1].section # classified[3].section
    /\ classified[1].section.title = classified[3].section.title
    /\ classified[1].section.content = classified[3].section.content
    /\ classified[2].section.content # classified[1].section.content
    /\ classified[1].extract
    /\ classified[1].reason = "strong signal"

\* ======================================================= the filter cascade
\* How far over a length threshold the padded contents go.
MaxOver == 1

\* Sections for the cascade of shouldExtract: skip titles in several letter
\* cases and other titles, with contents that hold no signal, a strong one,
\* one medium one, two medium ones (the code fence with and without a
\* language), or a strong and a medium one - as they are
\* and padded to the lengths around ShortLength and MediumLength - and
\* contents of table rows: 4 of 4, 3 of 4, 3 of 3 and 7 of 10 non-blank lines.
CascadeSections ==
    LET TitleSetup ==
            <<"S", "e", "t", "u", "p">>
        TitleInstallation ==
            <<"I", "N", "S", "T", "A", "L", "L", "A", "T", "I", "O", "N">>
        TitleHistory ==
            <<"V", "e", "r", "s", "i", "o", "n", " ", "h", "i", "s", "t",
              "o", "r", "y">>
        TitleSetupGuide ==
            <<"S", "e", "t", "u", "p", " ", "g", "u", "i", "d", "e">>
        TitleGoodToKnow ==
            <<"G", "o", "o", "d", " ", "t", "o", " ", "k", "n", "o", "w">>
        TitleUsage ==
            <<"U", "s", "a", "g", "e">>
        TextNone ==
            <<>>
        TextInsteadOf ==
            <<"U", "s", "e", " ", "t", "h", "i", "s", " ", "i", "n", "s",
              "t", "e", "a", "d", " ", "o", "f", " ", "t", "h", "a", "t",
              ".">>
        TextYouCan ==
            <<"Y", "o", "u", " ", "c", "a", "n", " ", "d", "o", " ", "i",
              "t", ".">>
        TextCode ==
            <<BackQuote, BackQuote, BackQuote, "t", "s", "\n", "r", "u",
              "n", "(", ")", "\n", BackQuote, BackQuote, BackQuote, "\n",
              "F", "o", "r", " ", "e", "x", "a", "m", "p", "l", "e", " ",
              "r", "u", "n", " ", "i", "t", ".">>
        TextFence ==
            <<BackQuote, BackQuote, BackQuote, "\n", "r", "u", "n", "(", ")", "\n",
              BackQuote, BackQuote, BackQuote, "\n", "F", "o", "r", " ", "e", "x",
              "a", "m", "p", "l", "e", " ", "r", "u", "n", " ", "i", "t", ".">>
        TextAvoidYouCan ==
            <<"A", "v", "o", "i", "d", " ", "i", "t", ";", " ", "y", "o",
              "u", " ", "c", "a", "n", "'", "t", " ", "u", "n", "d", "o",
              ".">>
        TableAll ==
            <<"|", " ", "a", " ", "|", " ", "b", " ", "|", "\n", "|", "-",
              "-", "-", "|", "-", "-", "-", "|", "\n", "|", " ", "i", "n",
              "s", "t", "e", "a", "d", " ", "o", "f", " ", "|", " ", "c",
              " ", "|", "\n", "|", " ", "d", " ", "|", " ", "e", " ", "|">>
        TableThreeOfFour ==
            <<"Y", "o", "u", " ", "c", "a", "n", " ", "u", "s", "e", ":",
              "\n", "\n", "|", " ", "a", " ", "|", " ", "b", " ", "|", "\n",
              "|", "-", "-", "-", "|", "-", "-", "-", "|", "\n", "|", " ",
              "i", "n", "s", "t", "e", "a", "d", " ", "o", "f", " ", "|",
              " ", "c", " ", "|">>
        TableThreeLines ==
            <<"|", " ", "a", " ", "|", " ", "b", " ", "|", "\n", "|", "-",
              "-", "-", "|", "-", "-", "-", "|", "\n", "|", " ", "i", "n",
              "s", "t", "e", "a", "d", " ", "o", "f", " ", "|", " ", "c",
              " ", "|">>
        TableSevenOfTen ==
            <<"a", "\n", "b", "\n", "c", "\n", "|", " ", "i", "n", "s", "t",
              "e", "a", "d", " ", "o", "f", " ", "|", "\n", "|", " ", "i",
              "n", "s", "t", "e", "a", "d", " ", "o", "f", " ", "|", "\n",
              "|", " ", "i", "n", "s", "t", "e", "a", "d", " ", "o", "f",
              " ", "|", "\n", "|", " ", "i", "n", "s", "t", "e", "a", "d",
              " ", "o", "f", " ", "|", "\n", "|", " ", "i", "n", "s", "t",
              "e", "a", "d", " ", "o", "f", " ", "|", "\n", "|", " ", "i",
              "n", "s", "t", "e", "a", "d", " ", "o", "f", " ", "|", "\n",
              "|", " ", "i", "n", "s", "t", "e", "a", "d", " ", "o", "f",
              " ", "|">>
        Lengths ==
            ((ShortLength - 1)..(ShortLength + MaxOver))
                \cup (MediumLength..(MediumLength + MaxOver))
        Padded(text) ==
            {text} \cup {text \o Pad(n - Len(text)) : n \in Lengths}
    IN  { Section(2, title, content) :
            title \in {TitleSetup, TitleInstallation, TitleHistory,
                        TitleSetupGuide, TitleGoodToKnow, TitleUsage},
            content \in
                UNION {Padded(text) :
                         text \in {TextNone, TextInsteadOf, TextYouCan,
                                    TextCode, TextFence, TextAvoidYouCan}}
                \cup {TableAll, TableThreeOfFour, TableThreeLines,
                       TableSevenOfTen} }

\* sections.filter(s => shouldExtract(s).extract), first element.
ClassifyFirst(section) ==
    /\ classified = <<>>
    /\ Classify(section)

NextCascade == \E section \in CascadeSections : ClassifyFirst(section)

SpecCascade == InitClassify /\ [][NextCascade]_vars

\* ------------------------------------------------- properties of the cascade
\* The title is one of the skip titles, letter case aside.
SkipTitle(section) ==
    \E k \in 1..Len(SKIP_PATTERNS) :
        [i \in 1..Len(section.title) |-> ToLower(section.title[i])]
            = SKIP_PATTERNS[k].body[2].lit

\* A line whose first and last non-blank characters are two "|".
TableRow(line) ==
    /\ Len(Trim(line)) >= 2
    /\ Trim(line)[1] = "|"
    /\ Trim(line)[Len(Trim(line))] = "|"

\* More than 3 non-blank lines, more than 70% of them table rows.
MostlyTable(section) ==
    LET nonBlank == {l \in SplitLines(section.content) :
                        \E i \in 1..Len(l.line) : ~IsSpace(l.line[i])}
        rows == {l \in nonBlank : TableRow(l.line)}
    IN  /\ Cardinality(nonBlank) > 3
        /\ 10 * Cardinality(rows) > 7 * Cardinality(nonBlank)

\* The patterns of the list that match the text, searched from its start.
SignalsIn(patterns, text) ==
    {k \in 1..Len(patterns) : RegExpExec(patterns[k], text, 0).found}

\* C11: a section with a skip title, in any letter case, is rejected with
\* "skip pattern", and any other section with more than 3 non-blank lines,
\* more than 70% of them table rows, is rejected with "mostly table" -
\* whatever signals its content holds.
C11_SkipAndTableRejectFirst ==
    \A i \in DOMAIN classified :
        LET c == classified[i]
        IN  /\ SkipTitle(c.section)
                => ~c.extract /\ c.reason = "skip pattern"
            /\ (~SkipTitle(c.section) /\ MostlyTable(c.section))
                => ~c.extract /\ c.reason = "mostly table"

\* A section of table rows that hold a strong signal, under a title that is
\* no skip title, was rejected as a table.
C11_Witness ==
    /\ Len(classified) = 1
    /\ ~SkipTitle(classified[1].section)
    /\ MostlyTable(classified[1].section)
    /\ SignalsIn(STRONG_SIGNALS, classified[1].section.content) # {}
    /\ classified[1].reason = "mostly table"

\* The section gets past the skip loop and the table check.
PassesSkipAndTable(section) == ~SkipTitle(section) /\ ~MostlyTable(section)

\* C12: a section that passes the skip and table checks and matches no strong
\* and no medium signal is rejected, with "too short" if its content has fewer
\* than 100 characters and with "no signals" otherwise.
C12_NoSignalRejectedByLength ==
    \A i \in DOMAIN classified :
        LET c == classified[i]
            content == c.section.content
        IN  (/\ PassesSkipAndTable(c.section)
             /\ SignalsIn(STRONG_SIGNALS, content) = {}
             /\ SignalsIn(MEDIUM_SIGNALS, content) = {})
            => /\ ~c.extract
               /\ Len(content) < 100 => c.reason = "too short"
               /\ Len(content) >= 100 => c.reason = "no signals"

\* A section of exactly 100 characters without any signal was rejected with
\* "no signals".
C12_Witness ==
    /\ Len(classified) = 1
    /\ PassesSkipAndTable(classified[1].section)
    /\ Len(classified[1].section.content) = 100
    /\ SignalsIn(STRONG_SIGNALS, classified[1].section.content) = {}
    /\ SignalsIn(MEDIUM_SIGNALS, classified[1].section.content) = {}
    /\ classified[1].reason = "no signals"

\* A line of the text opens or closes a fenced code block.
HasCodeFence(text) ==
    \E l \in SplitLines(text) :
        /\ Len(l.line) >= 3
        /\ \A i \in 1..3 : l.line[i] = BackQuote

\* C13: a section that passes the skip and table checks and matches no strong
\* signal is accepted with "multiple medium" if its content holds a fenced
\* code block and the phrase "for example", or any two medium signals; with
\* exactly one medium signal it is accepted with "medium + length" exactly
\* when its content has more than 300 characters.
C13_MediumSignalsAccept ==
    \A i \in DOMAIN classified :
        LET c == classified[i]
            content == c.section.content
            medium == SignalsIn(MEDIUM_SIGNALS, content)
        IN  (/\ PassesSkipAndTable(c.section)
             /\ SignalsIn(STRONG_SIGNALS, content) = {})
            => /\ ((HasCodeFence(content) /\ 2 \in medium)
                      \/ Cardinality(medium) >= 2)
                  => c.extract /\ c.reason = "multiple medium"
               /\ Cardinality(medium) = 1
                  => ((c.extract /\ c.reason = "medium + length")
                         <=> Len(content) > 300)

\* C14: a section that passes the skip and table checks and matches a strong
\* signal pattern, in its title or in its content, is accepted with "strong
\* signal", whatever its length and its medium signals.
C14_StrongSignalAccepts ==
    \A i \in DOMAIN classified :
        LET c == classified[i]
        IN  (/\ PassesSkipAndTable(c.section)
             /\ \/ SignalsIn(STRONG_SIGNALS, c.section.title) # {}
                \/ SignalsIn(STRONG_SIGNALS, c.section.content) # {})
            => c.extract /\ c.reason = "strong signal"

\* ==================================================== parseMarkdownSections
\* Most lines of a document.
MaxLines == 3

\* content.split("\n") as the array it is.
LinesOf(s) ==
    LET parts == SplitLines(s)
    IN  [k \in 1..Cardinality(parts) |->
            (CHOOSE l \in parts :
                Cardinality({m \in parts : m.at < l.at}) = k - 1).line]

\* lines.join("\n")
RECURSIVE JoinLines(_)
JoinLines(lines) ==
    IF lines = <<>> THEN <<>>
    ELSE IF Len(lines) = 1 THEN lines[1]
    ELSE lines[1] \o <<"\n">> \o JoinLines(Tail(lines))

\* array.slice(from, to), both 0-based, to excluded.
Slice(array, from, to) == SubSeq(array, from + 1, Min(to, Len(array)))

\* line.match(/^(#{1,4})\s+(.+)$/): whether it matches, the length of the
\* first group and the second group. Both quantifiers are greedy: the groups
\* are those of the longest run of "#" and of the longest run of \s for which
\* the rest matches.
HeaderMatch(line) ==
    LET Hashes(k) == Lit([i \in 1..k |-> "#"])
        Rest == RegExp("(.+)$", {}, <<Rep("dot", 1), Eol>>)
        Lead(k) == RegExp("^(#{k})\\s+", {}, <<Bol, Hashes(k), Rep("s", 1)>>)
        TitleStarts(k) ==
            {p \in MatchEnds(Lead(k), 1, line, 1) :
                MatchEnds(Rest, 1, line, p) # {}}
        ks == {k \in 1..4 : TitleStarts(k) # {}}
    IN  IF ks = {} THEN [matched |-> FALSE, level |-> 0, title |-> <<>>]
        ELSE [matched |-> TRUE,
              level |-> SetMax(ks),
              title |-> SubSeq(line, SetMax(TitleStarts(SetMax(ks))),
                               Len(line))]

\* The section with its last line and its content set when it is closed.
CloseSection(section, lineEnd, body) ==
    [section EXCEPT !.lineEnd = lineEnd, !.content = Trim(JoinLines(body))]

\* The loop of parseMarkdownSections from line i (0-based) on, and what
\* follows it. `current` is <<>> for null, else <<currentSection>>.
RECURSIVE ParseLoop(_, _, _, _)
ParseLoop(lines, i, sections, current) ==
    IF i >= Len(lines)
    THEN IF current # <<>>
         THEN Append(sections,
                     CloseSection(current[1], Len(lines) - 1,
                                  Slice(lines, current[1].lineStart + 1,
                                        Len(lines))))
         ELSE sections
    ELSE LET headerMatch == HeaderMatch(lines[i + 1])
         IN  IF headerMatch.matched
             THEN ParseLoop(lines, i + 1,
                            IF current # <<>>
                            THEN Append(sections,
                                        CloseSection(current[1], i - 1,
                                            Slice(lines,
                                                  current[1].lineStart + 1,
                                                  i)))
                            ELSE sections,
                            << [level |-> headerMatch.level,
                                title |-> SelectSeq(headerMatch.title,
                                              LAMBDA c : c # BackQuote),
                                lineStart |-> i,
                                lineEnd |-> -1,
                                content |-> <<>>] >>)
             ELSE ParseLoop(lines, i + 1, sections, current)

parseMarkdownSections(content) == ParseLoop(LinesOf(content), 0, <<>>, <<>>)

\* Documents of up to MaxLines lines: headings of level 1, 2 and 4, a line of
\* five "#", a "#" without a space after it, text, an empty line, and a
\* heading that ends in a carriage return.
Documents ==
    LET DocLines ==
            { <<"#", " ", "A">>,
              <<"#", "#", " ", " ", BackQuote, "b", BackQuote, " ", "c">>,
              <<"#", "#", "#", "#", "\t", "D">>,
              <<"#", "#", "#", "#", "#", " ", "E">>,
              <<"#", "f">>,
              <<"t">>,
              <<>>,
              <<"#", " ", "G", "\r">> }
    IN  { JoinLines(lines) :
            lines \in UNION { [1..n -> DocLines] : n \in 1..MaxLines } }

InitParse ==
    /\ PoolIdle
    /\ DedupIdle
    /\ ClassifyIdle
    /\ fnArgs \in { [content |-> doc] : doc \in Documents }
    /\ fnLocal = <<>>
    /\ fnDone = FALSE
    /\ fnResult = <<>>

\* const sections = parseMarkdownSections(content)
Parse ==
    /\ ~fnDone
    /\ fnResult' = parseMarkdownSections(fnArgs.content)
    /\ fnDone' = TRUE
    /\ UNCHANGED <<fnArgs, fnLocal, notFn>>

SpecParse == InitParse /\ [][Parse]_vars

\* ------------------------------------- properties of parseMarkdownSections
\* A heading line of level 1-4: one to four "#", then white space, then the
\* text of the title.
HeadingLine(line) ==
    \E k \in 1..4 :
        /\ Len(line) >= k + 2
        /\ \A i \in 1..k : line[i] = "#"
        /\ IsSpace(line[k + 1])

\* C15: parseMarkdownSections returns one section per heading line of level
\* 1-4, in document order, none for a document without one; the line ranges
\* [lineStart, lineEnd] of the sections are pairwise disjoint and cover
\* exactly the lines from the first heading line to the last line.
C15_OneSectionPerHeading ==
    fnDone =>
        LET lines == LinesOf(fnArgs.content)
            headings == {i \in 0..(Len(lines) - 1) : HeadingLine(lines[i + 1])}
            RangeOf(section) == section.lineStart..section.lineEnd
        IN  /\ Len(fnResult) = Cardinality(headings)
            /\ \A k \in 1..Len(fnResult) :
                   /\ fnResult[k].lineStart \in headings
                   /\ Cardinality({h \in headings :
                                      h < fnResult[k].lineStart}) = k - 1
                   /\ RangeOf(fnResult[k]) # {}
            /\ \A j, k \in 1..Len(fnResult) :
                   j # k => RangeOf(fnResult[j]) \cap RangeOf(fnResult[k]) = {}
            /\ UNION {RangeOf(fnResult[k]) : k \in 1..Len(fnResult)}
                   = {i \in 0..(Len(lines) - 1) : \E h \in headings : h <= i}

\* ================================================================ chunkText
\* Longest input text of chunkText.
MaxText == 6

\* s.slice(from, to) of a string or an array, 0-based, a negative index
\* counted from the end.
JsSlice(s, from, to) ==
    LET Clamp(i) == IF i < 0 THEN (IF Len(s) + i < 0 THEN 0 ELSE Len(s) + i)
                    ELSE Min(i, Len(s))
    IN  SubSeq(s, Clamp(from) + 1, Clamp(to))

\* A next window that starts where the last one ended.
NextStartNoOverlap(end, overlap) == end

\* start = end - overlap
NextStart(end, overlap) == end - overlap

\* chunkText(input, chunkSize, overlap) is called: texts of up to MaxText
\* characters, sizes up to one more, overlaps up to the size.
InitChunk ==
    /\ PoolIdle
    /\ DedupIdle
    /\ ClassifyIdle
    /\ fnArgs \in { [input |-> SubSeq(LowerCase, 1, n),
                     chunkSize |-> size,
                     overlap |-> overlap] :
                      n \in 0..MaxText,
                      size \in 1..(MaxText + 1),
                      overlap \in 0..(MaxText + 1) }
    /\ fnArgs.overlap <= fnArgs.chunkSize
    /\ fnLocal = [start |-> 0]
    /\ fnDone = FALSE
    /\ fnResult = <<>>

\* One round of the while loop; its break returns the chunks. A call that has
\* pushed more chunks than the text has characters is followed no further.
ChunkStep ==
    /\ ~fnDone
    /\ fnLocal.start < Len(fnArgs.input)
    /\ Len(fnResult) <= Len(fnArgs.input)
    /\ LET end == Min(fnLocal.start + fnArgs.chunkSize, Len(fnArgs.input))
           start == NextStart(end, fnArgs.overlap)
       IN  /\ fnResult' = Append(fnResult,
                                 JsSlice(fnArgs.input, fnLocal.start, end))
           /\ fnLocal' = [start |-> start]
           /\ fnDone' = (start >= Len(fnArgs.input) - fnArgs.overlap)
    /\ UNCHANGED <<fnArgs, notFn>>

\* The while condition is false: return chunks.
ChunkReturn ==
    /\ ~fnDone
    /\ ~(fnLocal.start < Len(fnArgs.input))
    /\ fnDone' = TRUE
    /\ UNCHANGED <<fnArgs, fnLocal, fnResult, notFn>>

NextChunk == ChunkStep \/ ChunkReturn

SpecChunk == InitChunk /\ [][NextChunk]_vars

\* C16: for a non-empty text and 0 <= overlap < windowSize, every window but
\* the last has windowSize characters, window k starts windowSize - overlap
\* after window k - 1, every position of the text is in a window, and the
\* last window ends where the text ends.
C16_WindowsCoverText ==
    (/\ fnDone
     /\ fnArgs.input # <<>>
     /\ 0 <= fnArgs.overlap /\ fnArgs.overlap < fnArgs.chunkSize)
    => LET input == fnArgs.input
           size == fnArgs.chunkSize
           step == fnArgs.chunkSize - fnArgs.overlap
           n == Len(fnResult)
           StartOf(k) == (k - 1) * step
       IN  /\ n >= 1 /\ n <= Len(input)
           /\ \A k \in 1..n :
                  fnResult[k] = SubSeq(input, StartOf(k) + 1,
                                       StartOf(k) + Len(fnResult[k]))
           /\ \A k \in 1..(n - 1) : Len(fnResult[k]) = size
           /\ Len(fnResult[n]) \in 1..size
           /\ StartOf(n) + Len(fnResult[n]) = Len(input)
           /\ \A pos \in 1..Len(input) :
                  \E k \in 1..n :
                      StartOf(k) < pos /\ pos <= StartOf(k) + Len(fnResult[k])

\* A text was cut into three overlapping windows, the last one shorter.
C16_Witness ==
    /\ fnDone
    /\ fnArgs.overlap > 0 /\ fnArgs.overlap < fnArgs.chunkSize
    /\ Len(fnResult) = 3
    /\ Len(fnResult[3]) < fnArgs.chunkSize

\* C29: chunkText terminates, whatever the text, the window size and the
\* overlap: every round of its loop that does not return moves start
\* forward, so at most as many rounds as the text has characters follow.
C29_ChunkTextTerminates ==
    [][ChunkStep /\ ~fnDone' => fnLocal'.start > fnLocal.start]_vars

\* =============================================================== JSON.parse
\* JSON values: a string with its characters, null, an object with its
\* members in the order of the text. JsonUndefined is what reading a property
\* gives that the object has not. The texts parsed hold no digit, bracket or
\* other literal outside strings, so every other value is a SyntaxError.
JsonString(chars) == [type |-> "string", chars |-> chars, members |-> <<>>]
JsonNull == [type |-> "null", chars |-> <<>>, members |-> <<>>]
JsonUndefined == [type |-> "undefined", chars |-> <<>>, members |-> <<>>]
JsonObject(members) == [type |-> "object", chars |-> <<>>, members |-> members]

\* A parse that failed, and one that gave `value` and stopped before `next`.
SyntaxError == [ok |-> FALSE, value |-> JsonUndefined, next |-> 0]
Parsed(value, next) == [ok |-> TRUE, value |-> value, next |-> next]

\* The character at position i, "" after the end.
CharAt(s, i) == IF i \in 1..Len(s) THEN s[i] ELSE ""

\* An odd number of backslashes stands right before position k of s.
Escaped(s, k) ==
    /\ CharAt(s, k - 1) = "\\"
    /\ \E first \in 1..(k - 1) :
          /\ \A j \in first..(k - 1) : s[j] = "\\"
          /\ CharAt(s, first - 1) # "\\"
          /\ (k - first) % 2 = 1

\* The string between the quotes at `open` and `close`: the characters at
\* the positions `kept` (all but the backslashes that start an escape),
\* with \" \\ \/ \n \r \t unescaped (the texts parsed have no \b, \f or
\* \u); no raw line break or tab and no other escape is allowed.
JsonStringBetween(s, kept, close) ==
    IF \E k \in kept :
          \/ ~Escaped(s, k) /\ s[k] \in {"\n", "\r", "\t"}
          \/ Escaped(s, k) /\ s[k] \notin {"\"", "\\", "/", "n", "r", "t"}
    THEN SyntaxError
    ELSE Parsed(JsonString(
             [n \in 1..Cardinality(kept) |->
                 LET k == CHOOSE k \in kept :
                              Cardinality({m \in kept : m < k}) = n - 1
                 IN  IF ~Escaped(s, k) THEN s[k]
                     ELSE CASE s[k] = "n" -> "\n"
                            [] s[k] = "r" -> "\r"
                            [] s[k] = "t" -> "\t"
                            [] OTHER -> s[k]]),
             close + 1)

\* A string or null at position i. A string ends at the next quote that no
\* backslash escapes.
JsonValueAt(s, i) ==
    IF CharAt(s, i) = "\""
    THEN IF \A j \in (i + 1)..Len(s) : s[j] # "\"" \/ Escaped(s, j)
         THEN SyntaxError
         ELSE CHOOSE parsed \in
                UNION { { JsonStringBetween(s, kept, close) :
                            kept \in { {k \in (i + 1)..(close - 1) :
                                          s[k] # "\\" \/ Escaped(s, k)} } } :
                        close \in { SetMin({j \in (i + 1)..Len(s) :
                                      s[j] = "\"" /\ ~Escaped(s, j)}) } } :
                TRUE
    ELSE IF LitAt(s, i, <<"n", "u", "l", "l">>, {})
    THEN Parsed(JsonNull, i + 4)
    ELSE SyntaxError

\* The members of an object from position i, where a key has to start, up
\* to and with its closing brace.
RECURSIVE JsonMembersAt(_, _, _)
JsonMembersAt(s, i, members) ==
    LET key == JsonValueAt(s, i)
        colon == RunEnd(s, key.next, "s")
        value == JsonValueAt(s, RunEnd(s, colon + 1, "s"))
        after == RunEnd(s, value.next, "s")
        all == Append(members, [key |-> key.value.chars, value |-> value.value])
    IN  IF ~key.ok \/ key.value.type # "string" THEN SyntaxError
        ELSE IF CharAt(s, colon) # ":" THEN SyntaxError
        ELSE IF ~value.ok THEN SyntaxError
        ELSE IF CharAt(s, after) = "}" THEN Parsed(JsonObject(all), after + 1)
        ELSE IF CharAt(s, after) = ","
        THEN JsonMembersAt(s, RunEnd(s, after + 1, "s"), all)
        ELSE SyntaxError

\* JSON.parse(s) of a text that starts with "{": the object, or a
\* SyntaxError - also when anything but white space follows the object.
JsonParse(s) ==
    LET first == RunEnd(s, 2, "s")
        object == IF CharAt(s, first) = "}"
                  THEN Parsed(JsonObject(<<>>), first + 1)
                  ELSE JsonMembersAt(s, first, <<>>)
    IN  IF CharAt(s, 1) # "{" THEN SyntaxError
        ELSE IF object.ok /\ RunEnd(s, object.next, "s") = Len(s) + 1
        THEN object
        ELSE SyntaxError

\* object.key: the value of the last member of that name.
JsonGet(object, key) ==
    LET ks == {k \in 1..Len(object.members) : object.members[k].key = key}
    IN  IF ks = {} THEN JsonUndefined ELSE object.members[SetMax(ks)].value

\* !value for the values above.
JsonFalsy(value) ==
    \/ value.type \in {"undefined", "null"}
    \/ value.type = "string" /\ value.chars = <<>>

\* ================================================= extractMemory's response
\* text.match(/{backquote}{3}(?:json)?\s*([\s\S]*?){backquote}{3}/): the
\* first fence that has a later fence, the tag and the white space after it
\* taken greedily, and the captured text up to the next fence.
FenceMatch(text) ==
    LET fence == <<BackQuote, BackQuote, BackQuote>>
        fences == {p \in 1..Len(text) : LitAt(text, p, fence, {})}
        opens == {p \in fences : \E c \in fences : c >= p + 3}
        open == SetMin(opens)
        tagged == IF LitAt(text, open + 3, <<"j", "s", "o", "n">>, {})
                  THEN open + 7 ELSE open + 3
        from == RunEnd(text, tagged, "s")
        close == SetMin({c \in fences : c >= from})
    IN  IF opens = {}
        THEN [matched |-> FALSE, group |-> <<>>]
        ELSE [matched |-> TRUE, group |-> SubSeq(text, from, close - 1)]

\* jsonStr.match(/\{[\s\S]*\}/): from the first "{" to the last "}".
ObjMatch(jsonStr) ==
    LET opens == {p \in 1..Len(jsonStr) : jsonStr[p] = "{"}
        closes == {p \in 1..Len(jsonStr) : jsonStr[p] = "}"}
    IN  IF opens = {} \/ closes = {} \/ SetMax(closes) < SetMin(opens)
        THEN [matched |-> FALSE, group |-> <<>>]
        ELSE [matched |-> TRUE,
              group |-> SubSeq(jsonStr, SetMin(opens), SetMax(closes))]

\* The try block and the catch after the claude call exited 0 with `stdout`.
MemoryOfStdout(section, docPath, stdout) ==
    LET text == Trim(stdout)
        jsonMatch == FenceMatch(text)
        jsonStr == IF jsonMatch.matched THEN Trim(jsonMatch.group) ELSE text
        objMatch == ObjMatch(jsonStr)
        parsed == JsonParse(objMatch.group)
        trigger == JsonGet(parsed.value, <<"t", "r", "i", "g", "g", "e", "r">>)
        rule == JsonGet(parsed.value, <<"r", "u", "l", "e">>)
    IN  IF text = <<"S", "K", "I", "P">>
           \/ [k \in 1..Len(text) |-> ToLower(text[k])] = <<"s", "k", "i", "p">>
        THEN Returned(NULL)
        ELSE IF ~objMatch.matched THEN Returned(NULL)
        ELSE IF ~parsed.ok THEN Caught
        ELSE IF JsonFalsy(trigger) \/ JsonFalsy(rule) THEN Returned(NULL)
        ELSE Returned([trigger |-> trigger,
                       rule |-> rule,
                       source |-> docPath,
                       section |-> section.title,
                       example |-> JsonGet(parsed.value,
                                     <<"e", "x", "a", "m", "p", "l", "e">>)])

\* Responses of the service: the objects the prompt asks for, objects with a
\* missing, null, empty or blank field and broken ones, each alone, fenced,
\* and with text before or after it; the SKIP sentinel in several cases; and
\* texts with no object.
Responses ==
    LET ObjPlain == <<"{", "\"", "t", "r", "i", "g", "g", "e", "r", "\"", ":", "\"", "t", "\"", ",", "\"", "r", "u", "l", "e", "\"", ":", "\"", "r", "\"", "}">>
        ObjBraces == <<"{", "\"", "t", "r", "i", "g", "g", "e", "r", "\"", ":", "\"", "t", "\"", ",", "\"", "r", "u", "l", "e", "\"", ":", "\"", "u", "s", "e", " ", "{", "x", "}", "\"", "}">>
        ObjExample == <<"{", " ", "\"", "t", "r", "i", "g", "g", "e", "r", "\"", ":", " ", "\"", "t", "\"", ",", " ", "\"", "r", "u", "l", "e", "\"", ":", " ", "\"", "r", "\"", ",", " ", "\"", "e", "x", "a", "m", "p", "l", "e", "\"", ":", " ", "\"", " ", "e", " ", "\"", " ", "}">>
        ObjBlankTrigger == <<"{", "\"", "t", "r", "i", "g", "g", "e", "r", "\"", ":", "\"", " ", "\"", ",", "\"", "r", "u", "l", "e", "\"", ":", "\"", "r", "\"", "}">>
        ObjBlankRule == <<"{", "\"", "t", "r", "i", "g", "g", "e", "r", "\"", ":", "\"", "t", "\"", ",", "\"", "r", "u", "l", "e", "\"", ":", "\"", " ", " ", "\"", "}">>
        ObjEmptyRule == <<"{", "\"", "t", "r", "i", "g", "g", "e", "r", "\"", ":", "\"", "t", "\"", ",", "\"", "r", "u", "l", "e", "\"", ":", "\"", "\"", "}">>
        ObjNullTrigger == <<"{", "\"", "t", "r", "i", "g", "g", "e", "r", "\"", ":", "n", "u", "l", "l", ",", "\"", "r", "u", "l", "e", "\"", ":", "\"", "r", "\"", "}">>
        ObjNoRule == <<"{", "\"", "t", "r", "i", "g", "g", "e", "r", "\"", ":", "\"", "t", "\"", "}">>
        ObjNoColon == <<"{", "\"", "t", "r", "i", "g", "g", "e", "r", "\"", " ", "\"", "t", "\"", ",", "\"", "r", "u", "l", "e", "\"", ":", "\"", "r", "\"", "}">>
        ObjOpen == <<"{", "\"", "t", "r", "i", "g", "g", "e", "r", "\"", ":", "\"", "t", "\"", ",", "\"", "r", "u", "l", "e", "\"", ":", "\"", "r", "\"">>
        Objects == {ObjPlain, ObjBraces, ObjExample, ObjBlankTrigger,
                    ObjBlankRule, ObjEmptyRule, ObjNullTrigger, ObjNoRule,
                    ObjNoColon, ObjOpen}
        Fence == <<BackQuote, BackQuote, BackQuote>>
        Wrapped(o) ==
            {o,
             <<" ">> \o o \o <<"\n">>,
             <<"H", "e", "r", "e", ":", " ">> \o o,
             o \o <<" ", "D", "o", "n", "e", ".">>,
             o \o <<" ", "U", "s", "e", " ", "{", "x", "}", ".">>,
             <<"O", "n", " ", "{", "x", "}", ":", " ">> \o o,
             o \o <<"\n">> \o ObjPlain,
             Fence \o <<"j", "s", "o", "n", "\n">> \o o \o <<"\n">> \o Fence,
             Fence \o <<"\n">> \o o \o <<"\n">> \o Fence,
             <<"H", "e", "r", "e", ":", " ">> \o Fence \o o \o Fence \o <<" ", "U", "s", "e", " ", "{", "x", "}", ".">>}
        Words == {<<"S", "K", "I", "P">>, <<"s", "k", "i", "p">>, <<"S", "k", "i", "p">>, <<"S", "K", "I", "P", "\n">>, <<"S", "K", "I", "P", ".">>, <<"s", "K", "i", "P">>, <<>>, <<"N", "o", " ", "a", "d", "v", "i", "c", "e", ".">>, <<"}", " ", "{">>}
    IN  UNION {Wrapped(o) : o \in Objects} \cup Words

ResponseSection == Section(2, "Usage", "Use it.")
ResponseDocPath == "docs/usage.md"

InitResponse ==
    /\ PoolIdle
    /\ DedupIdle
    /\ ClassifyIdle
    /\ fnArgs \in {[stdout |-> r] : r \in Responses}
    /\ fnLocal = <<>>
    /\ fnDone = FALSE
    /\ fnResult = <<>>

\* const memory = await extractMemory(section, docPath), after the call of
\* the service came back with fnArgs.stdout.
Respond ==
    /\ ~fnDone
    /\ fnDone' = TRUE
    /\ fnResult' = <<MemoryOfStdout(ResponseSection, ResponseDocPath,
                                    fnArgs.stdout)>>
    /\ UNCHANGED <<fnArgs, fnLocal, notFn>>

SpecResponse == InitResponse /\ [][Respond]_vars

\* ------------------------------------------------- response properties
\* The result of the call, once it returned.
Responded == fnResult[1]

\* The text the object is looked for in: the group of the fence if there is
\* one, else the trimmed response.
Remaining(stdout) ==
    LET text == Trim(stdout)
    IN  IF FenceMatch(text).matched THEN Trim(FenceMatch(text).group) ELSE text

\* Position q of s lies outside every string literal.
OutsideString(s, q) ==
    Cardinality({k \in 1..(q - 1) : s[k] = "\""}) % 2 = 0

\* Open braces minus close braces outside strings up to position p.
BraceDepth(s, p) ==
    Cardinality({q \in 1..p : s[q] = "{" /\ OutsideString(s, q)})
    - Cardinality({q \in 1..p : s[q] = "}" /\ OutsideString(s, q)})

\* The first top-level object of s by balanced braces: from the first "{"
\* to the "}" that closes it.
FirstBalanced(s) ==
    LET opens == {p \in 1..Len(s) : s[p] = "{" /\ OutsideString(s, p)}
        open == SetMin(opens)
        closes == {p \in (open + 1)..Len(s) :
                      s[p] = "}" /\ OutsideString(s, p) /\ BraceDepth(s, p) = 0}
    IN  IF opens = {} THEN [found |-> FALSE, text |-> <<>>]
        ELSE IF closes = {} THEN [found |-> FALSE, text |-> <<>>]
        ELSE [found |-> TRUE, text |-> SubSeq(s, open, SetMin(closes))]

\* The record of a parsed object that has a trigger and a rule.
RecordOf(object) ==
    [trigger |-> JsonGet(object, <<"t", "r", "i", "g", "g", "e", "r">>),
     rule |-> JsonGet(object, <<"r", "u", "l", "e">>),
     source |-> ResponseDocPath,
     section |-> ResponseSection.title,
     example |-> JsonGet(object, <<"e", "x", "a", "m", "p", "l", "e">>)]

\* The value is a string with a character that is no white space.
NonBlank(value) == value.type = "string" /\ Trim(value.chars) # <<>>

\* The response is the word SKIP in some letter case.
IsSkip(stdout) ==
    LET text == Trim(stdout)
    IN  [k \in 1..Len(text) |-> ToLower(text[k])] = <<"s", "k", "i", "p">>

\* C17: whenever the response holds a JSON object with a non-blank trigger
\* and rule, before or after whatever other text (text with braces and a
\* second object too), the call returns the record of the first top-level
\* object found by balanced braces.
C17_FirstBalancedObjectExtracted ==
    fnDone =>
        LET first == FirstBalanced(Remaining(fnArgs.stdout))
            object == JsonParse(first.text)
        IN  (/\ ~IsSkip(fnArgs.stdout)
             /\ first.found
             /\ object.ok
             /\ NonBlank(RecordOf(object.value).trigger)
             /\ NonBlank(RecordOf(object.value).rule))
            => Responded.value = RecordOf(object.value)

\* C18: a record is returned only if trigger and rule are both there and
\* non-empty after trimming, and the example of a returned record is the
\* example of the object, unchanged.
C18_RecordOnlyWithNonBlankFields ==
    fnDone /\ Responded.value # NULL =>
        /\ NonBlank(Responded.value.trigger)
        /\ NonBlank(Responded.value.rule)
        /\ Responded.value.example
             = RecordOf(JsonParse(ObjMatch(Remaining(fnArgs.stdout)).group).value).example

\* C19: a response that is SKIP in any letter case gives no record, and
\* every call that gives no record - SKIP, no object, a parse failure, a
\* field that lacks - neither throws nor logs an error.
C19_NoRecordIsSilent ==
    fnDone =>
        /\ IsSkip(fnArgs.stdout) => Responded.value = NULL
        /\ ~Responded.thrown
        /\ Responded.value = NULL => ~Responded.logged

\* ============================================ parseMemoriesFromModelOutput
MaxJsonLines == 3

\* s.startsWith(prefix), which no line passes
StartsWithNever(s, prefix) == FALSE

\* s.startsWith(prefix)
StartsWith(s, prefix) == LitAt(s, 1, prefix, {})

\* One round of the for loop: what the line adds to results.
MemoriesOfLine(line, source) ==
    LET trimmed == Trim(line)
        obj == JsonParse(trimmed)
        text == JsonGet(obj.value, <<"t", "e", "x", "t">>)
        context == JsonGet(obj.value, <<"c", "o", "n", "t", "e", "x", "t">>)
    IN  IF trimmed = <<>> THEN <<>>
        ELSE IF StartsWith(trimmed, <<BackQuote, BackQuote, BackQuote>>) THEN <<>>
        ELSE IF StartsWith(trimmed, <<"#">>) THEN <<>>
        ELSE IF ~StartsWith(trimmed, <<"{">>) THEN <<>>
        ELSE IF ~obj.ok THEN <<>>
        ELSE IF /\ text.type = "string"
                /\ context.type = "string"
                /\ Trim(text.chars) # <<>>
                /\ Trim(context.chars) # <<>>
        THEN << [text |-> Trim(text.chars),
                 context |-> Trim(context.chars),
                 source |-> source] >>
        ELSE <<>>

\* Responses in chunk mode: up to MaxJsonLines lines, each an object with
\* text and context, a blank line, a heading, a fence, prose, a cut or
\* incomplete object or one with a blank or null field; and the empty
\* response.
JsonlResponses ==
    LET JsonLines ==
            { <<" ", " ", "{", "\"", "t", "e", "x", "t", "\"", ":", " ", "\"", " ", "a", " ", "\"", ",", " ", "\"", "c", "o", "n", "t", "e", "x", "t", "\"", ":", "\"", "b", "\"", "}", "\r">>, <<"{", "\"", "c", "o", "n", "t", "e", "x", "t", "\"", ":", "\"", "d", "\"", ",", "\"", "t", "e", "x", "t", "\"", ":", "\"", "c", "\"", "}">>, <<" ", " ">>, <<"#", " ", "M", "e", "m", "o", "r", "i", "e", "s">>, <<BackQuote, BackQuote, BackQuote, "j", "s", "o", "n">>, <<"M", "e", "m", "o", "r", "i", "e", "s", ":">>,
              <<"{", "\"", "t", "e", "x", "t", "\"", ":", "\"", "a", "\"", ",">>, <<"{", "\"", "t", "e", "x", "t", "\"", ":", "\"", "a", "\"", ",", "\"", "c", "o", "n", "t", "e", "x", "t", "\"", ":", "\"", " ", "\"", "}">>, <<"{", "\"", "t", "e", "x", "t", "\"", ":", "n", "u", "l", "l", ",", "\"", "c", "o", "n", "t", "e", "x", "t", "\"", ":", "\"", "b", "\"", "}">> }
    IN  { JoinLines(lines) :
            lines \in UNION { [1..n -> JsonLines] : n \in 0..MaxJsonLines } }

JsonlSource == "docs/usage.md"

InitJsonl ==
    /\ PoolIdle
    /\ DedupIdle
    /\ ClassifyIdle
    /\ fnArgs \in { [raw |-> raw, source |-> JsonlSource] : raw \in JsonlResponses }
    /\ fnLocal = [lines |-> LinesOf(fnArgs.raw), i |-> 1]
    /\ fnDone = FALSE
    /\ fnResult = <<>>

\* for (const line of lines) { ... }
JsonlLine ==
    /\ ~fnDone
    /\ fnLocal.i <= Len(fnLocal.lines)
    /\ fnResult' = fnResult \o MemoriesOfLine(fnLocal.lines[fnLocal.i],
                                              fnArgs.source)
    /\ fnLocal' = [fnLocal EXCEPT !.i = @ + 1]
    /\ UNCHANGED <<fnArgs, fnDone, notFn>>

\* return results
JsonlReturn ==
    /\ ~fnDone
    /\ fnLocal.i > Len(fnLocal.lines)
    /\ fnDone' = TRUE
    /\ UNCHANGED <<fnArgs, fnLocal, fnResult, notFn>>

NextJsonl == JsonlLine \/ JsonlReturn

SpecJsonl == InitJsonl /\ [][NextJsonl]_vars

\* ---------------------------------------------------- JSONL properties
\* The line, trimmed, is a JSON object whose text and context are strings
\* with a character that is no white space.
ValidJsonLine(line) ==
    LET obj == JsonParse(Trim(line))
    IN  /\ obj.ok
        /\ NonBlank(JsonGet(obj.value, <<"t", "e", "x", "t">>))
        /\ NonBlank(JsonGet(obj.value, <<"c", "o", "n", "t", "e", "x", "t">>))

\* The lines of the response, and which of them are valid, in line order.
JsonlLines == LinesOf(fnArgs.raw)
ValidLineNumbers == {k \in 1..Len(JsonlLines) : ValidJsonLine(JsonlLines[k])}
NthValid(n) ==
    CHOOSE k \in ValidLineNumbers :
        Cardinality({m \in ValidLineNumbers : m < k}) = n - 1

\* C20: the records returned are exactly those of the valid lines, one per
\* line and in line order, each with the trimmed text and context of its
\* line, whatever blank, heading, fence, prose, malformed or incomplete
\* lines stand between them; the empty response gives no record.
C20_RecordsAreTheValidLines ==
    fnDone =>
        /\ Len(fnResult) = Cardinality(ValidLineNumbers)
        /\ \A n \in 1..Len(fnResult) :
              LET obj == JsonParse(Trim(JsonlLines[NthValid(n)])).value
              IN  /\ fnResult[n].text
                       = Trim(JsonGet(obj, <<"t", "e", "x", "t">>).chars)
                  /\ fnResult[n].context
                       = Trim(JsonGet(obj, <<"c", "o", "n", "t", "e", "x", "t">>).chars)
                  /\ fnResult[n].source = fnArgs.source
        /\ fnArgs.raw = <<>> => fnResult = <<>>

\* A response of three lines whose first is a fence and whose second is
\* malformed gave the record of its third line.
C20_Witness ==
    /\ fnDone
    /\ Len(JsonlLines) = 3
    /\ StartsWith(JsonlLines[1], <<BackQuote, BackQuote, BackQuote>>)
    /\ StartsWith(JsonlLines[2], <<"{">>)
    /\ ~JsonParse(Trim(JsonlLines[2])).ok
    /\ ValidLineNumbers = {3}
    /\ Len(fnResult) = 1

\* ===================================================== vector-store writes
\* Longest series of writes to one destination.
MaxWrites == 2

\* The programs that write the "memories" table.
ToLanceDbMain == "to-lancedb.ts main"
BenchCli == "memory-hook-bench extract-memories"
DocsToMemories == "docs-to-memories extract"

\* rows without the memories
LanceDbRowsNone(mems) == <<>>

\* writeLanceDb: rows.push({ ...m, vector }) for every memory.
LanceDbRows(mems) ==
    [i \in 1..Len(mems) |->
        [id |-> mems[i].id,
         text |-> mems[i].text,
         context |-> mems[i].context,
         source |-> mems[i].source,
         vector |-> embed(<<mems[i].text, " ", mems[i].context>>)]]

\* The rows the host's writer builds: docs-to-memories calls writeLanceDb,
\* the other two call writeToLanceDB.
RowsOfWrite(host, mems, count) ==
    IF host = DocsToMemories THEN LanceDbRows(mems) ELSE LanceRows(mems, count)

\* The exit status after main() rejected: .catch(console.error) lets the
\* process end with status 0, the other two call process.exit(1).
StatusAfterReject(host) == IF host = ToLanceDbMain THEN 0 ELSE 1

\* The memory lists written, in the form of the host's writer.
WriteSets(host) ==
    LET Extracted(t, r, e) ==
            [trigger |-> t, rule |-> r, source |-> "docs/a.md",
             section |-> "Usage", example |-> e]
        Mem(i, t, c) ==
            [id |-> i, text |-> t, context |-> c, source |-> "docs/a.md"]
    IN  IF host = DocsToMemories
        THEN { <<Mem("id-1", "updateTag", "Use updateTag"),
                 Mem("id-2", "Link href", "Use Link")>>,
               <<Mem("id-3", "cookies", "Await cookies")>> }
        ELSE { <<Extracted("updateTag", "Use updateTag", <<>>),
                 Extracted("Link href", "Use Link", <<"<Link href>">>)>>,
               <<Extracted("cookies", "Await cookies", <<>>)>> }

\* Runs of one host against one destination, one after the other. fnLocal
\* holds the run under way: its number, where it is, the rows built, the
\* table of the destination, the ids handed out so far and the steps that
\* failed; fnResult has one entry per run that ended.
InitWrite ==
    /\ PoolIdle
    /\ DedupIdle
    /\ ClassifyIdle
    /\ \E host \in {ToLanceDbMain, BenchCli, DocsToMemories} :
         \E n \in 1..MaxWrites :
           fnArgs \in { [host |-> host, writes |-> w] :
                          w \in [1..n -> WriteSets(host)] }
    /\ fnLocal = [run |-> 1, pc |-> "embed", rows |-> <<>>, table |-> Absent,
                  before |-> Absent, uuid |-> 0, failed |-> {}]
    /\ fnDone = FALSE
    /\ fnResult = <<>>

\* The run ends: the writer resolved or rejected, the process exits, and
\* the next run, if any, starts on the table this one left.
EndRun(resolved, failed, table) ==
    /\ fnResult' = Append(fnResult,
            [resolved |-> resolved,
             status |-> IF resolved THEN 0 ELSE StatusAfterReject(fnArgs.host),
             failed |-> failed,
             memories |-> fnArgs.writes[fnLocal.run],
             rows |-> fnLocal.rows,
             before |-> fnLocal.before,
             after |-> table])
    /\ fnLocal' = [fnLocal EXCEPT !.run = @ + 1, !.pc = "embed", !.rows = <<>>,
                                  !.table = table, !.before = table,
                                  !.failed = {}]
    /\ fnDone' = (fnLocal.run = Len(fnArgs.writes))
    /\ UNCHANGED <<fnArgs, notFn>>

\* The loop that embeds every memory and builds the rows; embed may throw.
WriteEmbed ==
    /\ ~fnDone
    /\ fnLocal.pc = "embed"
    /\ \E ok \in BOOLEAN :
         IF ok
         THEN /\ fnLocal' =
                   [fnLocal EXCEPT
                      !.pc = "connect",
                      !.rows = RowsOfWrite(fnArgs.host,
                                           fnArgs.writes[fnLocal.run],
                                           fnLocal.uuid),
                      !.uuid = IF fnArgs.host = DocsToMemories THEN @
                               ELSE @ + Len(fnArgs.writes[fnLocal.run])]
              /\ UNCHANGED <<fnArgs, fnDone, fnResult, notFn>>
         ELSE EndRun(FALSE, {"embed"}, fnLocal.table)

\* const db = await connect(path)
WriteConnect ==
    /\ ~fnDone
    /\ fnLocal.pc = "connect"
    /\ \E ok \in BOOLEAN :
         IF ok
         THEN /\ fnLocal' = [fnLocal EXCEPT !.pc = "drop"]
              /\ UNCHANGED <<fnArgs, fnDone, fnResult, notFn>>
         ELSE EndRun(FALSE, {"connect"}, fnLocal.table)

\* writeToLanceDB: if (tables.includes("memories")) await db.dropTable(...);
\* a dropTable that throws rejects the writer.
\* writeLanceDb: try { await db.dropTable(...) } catch {}; a dropTable that
\* throws, the table there or not, is passed over.
WriteDrop ==
    /\ ~fnDone
    /\ fnLocal.pc = "drop"
    /\ \E ok \in BOOLEAN :
         IF ~fnLocal.table.exists
         THEN /\ ok
              /\ fnLocal' = [fnLocal EXCEPT !.pc = "create"]
              /\ UNCHANGED <<fnArgs, fnDone, fnResult, notFn>>
         ELSE IF ok
         THEN /\ fnLocal' = [fnLocal EXCEPT !.pc = "create", !.table = Absent]
              /\ UNCHANGED <<fnArgs, fnDone, fnResult, notFn>>
         ELSE IF fnArgs.host = DocsToMemories
         THEN /\ fnLocal' = [fnLocal EXCEPT !.pc = "create", !.failed = {"drop"}]
              /\ UNCHANGED <<fnArgs, fnDone, fnResult, notFn>>
         ELSE EndRun(FALSE, {"drop"}, fnLocal.table)

\* await db.createTable("memories", rows): throws when the table is there,
\* may throw when it is not, and else the table holds the rows.
WriteCreate ==
    /\ ~fnDone
    /\ fnLocal.pc = "create"
    /\ \E ok \in BOOLEAN :
         IF fnLocal.table.exists
         THEN /\ ~ok
              /\ EndRun(FALSE, fnLocal.failed \cup {"insert"}, fnLocal.table)
         ELSE IF ok
         THEN EndRun(TRUE, fnLocal.failed, Holding(fnLocal.rows))
         ELSE EndRun(FALSE, fnLocal.failed \cup {"insert"}, Absent)

NextWrite == WriteEmbed \/ WriteConnect \/ WriteDrop \/ WriteCreate

SpecWrite == InitWrite /\ [][NextWrite]_vars

\* ------------------------------------------------------- write properties
\* C21: after every write that succeeded - the first, a repeated one of the
\* same memories, or one of other memories - the table holds exactly the
\* rows of that write, one per memory.
C21_TableHoldsRowsOfLastWrite ==
    \A k \in 1..Len(fnResult) :
        fnResult[k].resolved =>
            /\ fnResult[k].after = Holding(fnResult[k].rows)
            /\ Len(fnResult[k].after.rows) = Len(fnResult[k].memories)

\* Two writes of the same two memories succeeded, and the table holds two
\* rows.
C21_Witness ==
    /\ Len(fnResult) = 2
    /\ fnResult[1].resolved
    /\ fnResult[2].resolved
    /\ fnResult[1].memories = fnResult[2].memories
    /\ Len(fnResult[2].memories) = 2
    /\ fnResult[2].before.exists
    /\ Len(fnLocal.table.rows) = 2

\* C22: a run in which connect, drop or insert failed does not resolve and
\* ends with a non-zero status.
C22_FailedWriteFailsTheRun ==
    \A k \in 1..Len(fnResult) :
        fnResult[k].failed \cap {"connect", "drop", "insert"} # {} =>
            ~fnResult[k].resolved /\ fnResult[k].status # 0

\* C23: a run in which a step failed leaves the table as it found it or
\* with all rows of the new write.
C23_FailedWriteLeavesOldOrNewRows ==
    \A k \in 1..Len(fnResult) :
        fnResult[k].failed # {} =>
            \/ fnResult[k].after = fnResult[k].before
            \/ fnResult[k].after = Holding(fnResult[k].rows)

\* =========================================================== runSingleEval
\* How a run of the claude agent can end: exit code 0, killed by the timer
\* of run(), or a non-zero exit (or a spawn error) without the timer.
AgentOk == [success |-> TRUE, timedOut |-> FALSE]
AgentTimedOut == [success |-> FALSE, timedOut |-> TRUE]
AgentCrashed == [success |-> FALSE, timedOut |-> FALSE]
AgentResults == {AgentOk, AgentTimedOut, AgentCrashed}

\* if (agentResult.timedOut && opts.retryOnTimeout)
ShouldRetry(agentResult, opts) ==
    agentResult.timedOut /\ opts.retryOnTimeout

\* One (eval, config) pair. fnLocal holds where runSingleEval is, the
\* results of the agent runs so far, whether each ran on a workspace that
\* was prepared and configured just before, how often the workspace was
\* prepared and the config applied, and the results of the validations.
InitEval ==
    /\ PoolIdle
    /\ DedupIdle
    /\ ClassifyIdle
    /\ fnArgs \in { [opts |-> [retryOnTimeout |-> r]] : r \in BOOLEAN }
    /\ fnLocal = [pc |-> "prepare", agent |-> <<>>, onFresh |-> <<>>,
                  fresh |-> FALSE, prepared |-> 0, applied |-> 0,
                  validations |-> <<>>]
    /\ fnDone = FALSE
    /\ fnResult = <<>>

\* await prepareFreshWorkspace(...); await config.apply(...): before the
\* first agent run and inside the retry.
EvalPrepare ==
    /\ ~fnDone
    /\ fnLocal.pc \in {"prepare", "retry"}
    /\ fnLocal' = [fnLocal EXCEPT !.pc = "agent", !.fresh = TRUE,
                                  !.prepared = @ + 1, !.applied = @ + 1]
    /\ UNCHANGED <<fnArgs, fnDone, fnResult, notFn>>

\* agentResult = await runClaudeAgent(...), and the test for the retry
\* after the first run.
EvalAgent(agentResult) ==
    /\ ~fnDone
    /\ fnLocal.pc = "agent"
    /\ fnLocal' = [fnLocal EXCEPT
            !.agent = Append(@, agentResult),
            !.onFresh = Append(@, fnLocal.fresh),
            !.fresh = FALSE,
            !.pc = IF Len(fnLocal.agent) = 0
                      /\ ShouldRetry(agentResult, fnArgs.opts)
                   THEN "retry" ELSE "install"]
    /\ UNCHANGED <<fnArgs, fnDone, fnResult, notFn>>

\* bun install, build, lint (when package.json has the script) and the
\* EVAL.ts test (when the file is there), one after the other, each passing
\* or failing; after the last one runSingleEval returns.
EvalValidate(pass) ==
    /\ ~fnDone
    /\ fnLocal.pc \in {"install", "build", "lint", "test"}
    /\ fnLocal' = [fnLocal EXCEPT
            !.validations = Append(@, [step |-> fnLocal.pc, pass |-> pass]),
            !.pc = CASE fnLocal.pc = "install" -> "build"
                     [] fnLocal.pc = "build" -> "lint"
                     [] fnLocal.pc = "lint" -> "test"
                     [] fnLocal.pc = "test" -> "returned"]
    /\ fnDone' = (fnLocal.pc = "test")
    /\ fnResult' = IF fnLocal.pc = "test"
                   THEN << [agentRuns |-> Len(fnLocal.agent),
                            overall |-> /\ pass
                                        /\ \A k \in 2..Len(fnLocal.validations) :
                                              fnLocal.validations[k].pass] >>
                   ELSE fnResult
    /\ UNCHANGED <<fnArgs, notFn>>

NextEval ==
    \/ EvalPrepare
    \/ \E agentResult \in AgentResults : EvalAgent(agentResult)
    \/ \E pass \in BOOLEAN : EvalValidate(pass)

SpecEval == InitEval /\ [][NextEval]_vars

\* C27: with the retry option on, a first agent run that timed out or
\* crashed is followed by exactly one more run, on a workspace prepared and
\* configured anew; the agent never runs more than twice, a first run that
\* exited with 0 is the only one, and no agent run comes after a validation.
C27_RetryOnceOnTimeoutOrCrash ==
    /\ Len(fnLocal.agent) <= 2
    /\ \A k \in 1..Len(fnLocal.onFresh) : fnLocal.onFresh[k]
    /\ fnLocal.validations # <<>> /\ fnArgs.opts.retryOnTimeout =>
          IF fnLocal.agent[1] = AgentOk
          THEN Len(fnLocal.agent) = 1
          ELSE Len(fnLocal.agent) = 2 /\ fnLocal.prepared = 2
                                      /\ fnLocal.applied = 2

\* ========================================= writeJsonl and reading it back
\* Longest memory list written.
MaxMems == 3

\* the characters between the quotes, none escaped
JsonQuoteRaw(chars) == chars

\* JSON.stringify of a string, without its quotes: quote and backslash
\* behind a backslash, line feed, carriage return and tab as \n, \r, \t.
RECURSIVE JsonQuote(_)
JsonQuote(chars) ==
    IF chars = <<>> THEN <<>>
    ELSE (CASE Head(chars) = "\"" -> <<"\\", "\"">>
            [] Head(chars) = "\\" -> <<"\\", "\\">>
            [] Head(chars) = "\n" -> <<"\\", "n">>
            [] Head(chars) = "\r" -> <<"\\", "r">>
            [] Head(chars) = "\t" -> <<"\\", "t">>
            [] OTHER -> <<Head(chars)>>)
         \o JsonQuote(Tail(chars))

\* JSON.stringify(m) of a Memory: its four properties in the order
\* finalizeMemories gives them.
JsonStringify(m) ==
    LET Member(key, chars) ==
            <<"\"">> \o key \o <<"\"", ":", "\"">> \o JsonQuote(chars) \o <<"\"">>
    IN  <<"{">> \o Member(<<"i", "d">>, m.id)
        \o <<",">> \o Member(<<"t", "e", "x", "t">>, m.text)
        \o <<",">> \o Member(<<"c", "o", "n", "t", "e", "x", "t">>, m.context)
        \o <<",">> \o Member(<<"s", "o", "u", "r", "c", "e">>, m.source)
        \o <<"}">>

\* memories.map((m) => JSON.stringify(m)).join("\n") + "\n"
JsonlText(mems) ==
    JoinLines([k \in 1..Len(mems) |-> JsonStringify(mems[k])]) \o <<"\n">>

\* content.split("\n").filter((line) => line.trim()).map(JSON.parse): the
\* parse of every line that is not blank.
ReadJsonl(content) ==
    LET lines == SelectSeq(LinesOf(content), LAMBDA line : Trim(line) # <<>>)
    IN  [k \in 1..Len(lines) |-> JsonParse(lines[k])]

\* Memories whose strings hold plain text, quotes, braces, a backslash,
\* line breaks, a tab, blanks at the ends, and nothing at all.
StoredMemories ==
    LET Mem(i, t, c, src) == [id |-> i, text |-> t, context |-> c, source |-> src]
    IN  { Mem(<<"a", "1">>, <<"u", "s", "e", "I", "d">>, <<"U", "s", "e", " ", "u", "s", "e", "I", "d", ".">>, <<"a", ".", "m", "d">>),
          Mem(<<"b", "2">>, <<"s", "a", "y", " ", "\"", "h", "i", "\"">>, <<"a", "\n", "b", "\r", "\n">>, <<"a", ".", "m", "d">>),
          Mem(<<"c", "3">>, <<"c", ":", "\\", "d", "\\">>, <<"{", "x", "}", " ", "}">>, <<"d", "/", "b", " ", "c", ".", "m", "d">>),
          Mem(<<"d", "4">>, <<>>, <<" ", "\t", "z", " ">>, <<"d", "/", "b", " ", "c", ".", "m", "d">>),
          Mem(<<"a", "1">>, <<"\\", "\"">>, <<"\\", "n">>, <<"a", ".", "m", "d">>) }

InitStore ==
    /\ PoolIdle
    /\ DedupIdle
    /\ ClassifyIdle
    /\ \E n \in 0..MaxMems :
         fnArgs \in { [memories |-> mems] : mems \in [1..n -> StoredMemories] }
    /\ fnLocal = [file |-> Absent]
    /\ fnDone = FALSE
    /\ fnResult = <<>>

\* await writeJsonl(path, memories)
WriteJsonl ==
    /\ ~fnDone
    /\ ~fnLocal.file.exists
    /\ fnLocal' = [file |-> Holding(JsonlText(fnArgs.memories))]
    /\ UNCHANGED <<fnArgs, fnDone, fnResult, notFn>>

\* agentsMd.apply reads the file line by line.
ReadBack ==
    /\ ~fnDone
    /\ fnLocal.file.exists
    /\ fnResult' = ReadJsonl(fnLocal.file.rows)
    /\ fnDone' = TRUE
    /\ UNCHANGED <<fnArgs, fnLocal, notFn>>

NextStore == WriteJsonl \/ ReadBack

SpecStore == InitStore /\ [][NextStore]_vars

\* C24: what is read back from the file writeJsonl wrote is one record per
\* memory written, in the same order, each a well-formed object with the
\* id, text, context and source of its memory.
C24_JsonlRoundTrip ==
    fnDone =>
        /\ Len(fnResult) = Len(fnArgs.memories)
        /\ \A k \in 1..Len(fnResult) :
              /\ fnResult[k].ok
              /\ JsonGet(fnResult[k].value, <<"i", "d">>)
                   = JsonString(fnArgs.memories[k].id)
              /\ JsonGet(fnResult[k].value, <<"t", "e", "x", "t">>)
                   = JsonString(fnArgs.memories[k].text)
              /\ JsonGet(fnResult[k].value, <<"c", "o", "n", "t", "e", "x", "t">>)
                   = JsonString(fnArgs.memories[k].context)
              /\ JsonGet(fnResult[k].value, <<"s", "o", "u", "r", "c", "e">>)
                   = JsonString(fnArgs.memories[k].source)

\* Three memories were written and read back, one of them with a line
\* break and one with a quote in its strings.
C24_Witness ==
    /\ fnDone
    /\ Len(fnResult) = 3
    /\ \E k \in 1..3 : "\n" \in Range(fnArgs.memories[k].context)
    /\ \E k \in 1..3 : "\"" \in Range(fnArgs.memories[k].text)
    /\ fnArgs.memories[1] # fnArgs.memories[2]

\* ======================================== the runs of the command lines
\* Most chunks buildChunksFromDir returns.
MaxChunks == 3
\* Largest --concurrency value.
MaxConcurrency == 3

\* The third program that runs the extraction: extractor.ts --dir.
ExtractorMain == "extractor.ts --dir"

\* JavaScript numbers as far as parseInt gives them: an integer, or NaN.
NaN == [nan |-> TRUE, n |-> 0]
Num(n) == [nan |-> FALSE, n |-> n]

\* a + b
JsAdd(a, b) == IF a.nan \/ b.nan THEN NaN ELSE Num(a.n + b.n)

\* a < b, false when either is NaN
JsLess(a, b) == ~a.nan /\ ~b.nan /\ a.n < b.n

\* ToIntegerOrInfinity, as slice applies it to its arguments
ToIntegerOrInfinity(a) == IF a.nan THEN 0 ELSE a.n

\* One run of a command line. fnArgs: the program, whether the docs
\* directory is there, and for docs-to-memories the number of chunks, the
\* --concurrency value as parsed, --dry-run, the kind of output and the
\* table found at the destination. fnLocal: where the run is, the loop
\* variable i, the chunks whose call is in flight, the calls made per chunk,
\* what each call of the batch resolved to, allRawMemories (as the chunks
\* the memories came from), the finalized memories and whether
\* finalizeMemories was reached, the file and the table of the destination,
\* the exit status and the rounds of the loop so far.
InitExtract ==
    /\ PoolIdle
    /\ DedupIdle
    /\ ClassifyIdle
    /\ \/ \E host \in {BenchCli, ExtractorMain}, docs \in BOOLEAN :
            fnArgs = [host |-> host, docsExist |-> docs, chunks |-> 0,
                      concurrency |-> Num(1), dryRun |-> FALSE,
                      output |-> "jsonl", table |-> Absent]
       \/ \E docs, dry \in BOOLEAN, n \in 0..MaxChunks,
             conc \in {NaN} \cup {Num(c) : c \in (-1)..MaxConcurrency},
             out \in {"jsonl", "lancedb"},
             tbl \in {Absent, Holding(<<"row of an earlier run">>)} :
            /\ out = "jsonl" => tbl = Absent
            /\ fnArgs = [host |-> DocsToMemories, docsExist |-> docs,
                         chunks |-> n, concurrency |-> conc, dryRun |-> dry,
                         output |-> out, table |-> tbl]
    /\ fnLocal = [pc |-> "start", i |-> Num(0), inFlight |-> {},
                  calls |-> [c \in 1..fnArgs.chunks |-> 0],
                  batch |-> {}, resolved |-> [c \in 1..fnArgs.chunks |-> 0],
                  allRawMemories |-> <<>>, memories |-> <<>>,
                  file |-> Absent, table |-> fnArgs.table,
                  finalized |-> FALSE, status |-> 0, rounds |-> 0]
    /\ fnDone = FALSE
    /\ fnResult = <<>>

\* The process exits with `status`.
Exit(status, local) ==
    /\ fnLocal' = [local EXCEPT !.pc = "exited", !.status = status]
    /\ fnDone' = TRUE
    /\ UNCHANGED <<fnArgs, fnResult, notFn>>

\* The start of a run up to the first dispatch. docs-to-memories: exit 3
\* when the path is not there, return after the listing with --dry-run.
\* memory-hook-bench: exit 1 when the directory is not there. extractor.ts:
\* no test; readdir rejects, main().catch(console.error) prints the error
\* and the process ends with status 0. With the directory there the last
\* two go on into extractFromDirectory, which Spec models.
ExtractStart ==
    /\ ~fnDone
    /\ fnLocal.pc = "start"
    /\ IF ~fnArgs.docsExist
       THEN Exit(CASE fnArgs.host = DocsToMemories -> 3
                   [] fnArgs.host = BenchCli -> 1
                   [] fnArgs.host = ExtractorMain -> 0, fnLocal)
       ELSE IF fnArgs.host # DocsToMemories
       THEN /\ fnLocal' = [fnLocal EXCEPT !.pc = "extractFromDirectory"]
            /\ fnDone' = TRUE
            /\ UNCHANGED <<fnArgs, fnResult, notFn>>
       ELSE IF fnArgs.dryRun
       THEN Exit(0, fnLocal)
       ELSE /\ fnLocal' = [fnLocal EXCEPT !.pc = "loop"]
            /\ UNCHANGED <<fnArgs, fnDone, fnResult, notFn>>

\* for (...; i < chunks.length; ...): the batch is sliced and every chunk
\* of it is handed to extractFromChunk at once; when the test fails the
\* loop is left.
BatchStart ==
    /\ ~fnDone
    /\ fnLocal.pc = "loop"
    /\ fnLocal.rounds <= MaxChunks
    /\ IF JsLess(fnLocal.i, Num(fnArgs.chunks))
       THEN LET batch ==
                    Range(JsSlice([c \in 1..fnArgs.chunks |-> c],
                                  ToIntegerOrInfinity(fnLocal.i),
                                  ToIntegerOrInfinity(
                                      JsAdd(fnLocal.i, fnArgs.concurrency))))
            IN  fnLocal' = [fnLocal EXCEPT
                    !.pc = "await",
                    !.batch = batch,
                    !.inFlight = batch,
                    !.calls = [c \in 1..fnArgs.chunks |->
                                  IF c \in batch THEN @[c] + 1 ELSE @[c]]]
       ELSE fnLocal' = [fnLocal EXCEPT !.pc = "finalize"]
    /\ UNCHANGED <<fnArgs, fnDone, fnResult, notFn>>

\* The call for chunk c ends - with output, or with "" after a timeout or a
\* non-zero exit - and its output is parsed to k memories.
ChunkResolve(c, k) ==
    /\ ~fnDone
    /\ fnLocal.pc = "await"
    /\ c \in fnLocal.inFlight
    /\ fnLocal' = [fnLocal EXCEPT !.inFlight = @ \ {c}, !.resolved[c] = k]
    /\ UNCHANGED <<fnArgs, fnDone, fnResult, notFn>>

\* Promise.all resolved: the memories of the batch are pushed in the order
\* of the batch, and i += opts.concurrency.
BatchEnd ==
    /\ ~fnDone
    /\ fnLocal.pc = "await"
    /\ fnLocal.inFlight = {}
    /\ LET order == [k \in 1..Cardinality(fnLocal.batch) |->
                        CHOOSE c \in fnLocal.batch :
                            Cardinality({b \in fnLocal.batch : b < c}) = k - 1]
           got == SelectSeq(order, LAMBDA c : fnLocal.resolved[c] > 0)
       IN  fnLocal' = [fnLocal EXCEPT
               !.pc = "loop",
               !.allRawMemories = @ \o got,
               !.i = JsAdd(@, fnArgs.concurrency),
               !.rounds = @ + 1]
    /\ UNCHANGED <<fnArgs, fnDone, fnResult, notFn>>

\* finalizeMemories (the memories of different chunks differ, so all are
\* kept) and the write of the output: writeJsonl writes the file,
\* writeLanceDb drops the table and creates it, which may throw; no test of
\* the number of memories comes before either.
ExtractWrite ==
    /\ ~fnDone
    /\ fnLocal.pc = "finalize"
    /\ LET local == [fnLocal EXCEPT !.memories = fnLocal.allRawMemories,
                                    !.finalized = TRUE]
       IN  IF fnArgs.output = "jsonl"
           THEN Exit(0, [local EXCEPT !.file = Holding(local.memories)])
           ELSE \E ok \in BOOLEAN :
                  IF ok
                  THEN Exit(0, [local EXCEPT !.table = Holding(local.memories)])
                  ELSE Exit(1, [local EXCEPT !.table = Absent])

NextExtract ==
    \/ ExtractStart
    \/ BatchStart
    \/ \E c \in 1..MaxChunks, k \in 0..1 : ChunkResolve(c, k)
    \/ BatchEnd
    \/ ExtractWrite

SpecExtract == InitExtract /\ [][NextExtract]_vars


\* ---------------------------------------------------- run properties
\* C25: a run that finalized zero memories ends with a non-zero status,
\* wrote no file and left the table of the destination alone.
C25_ZeroMemoriesIsFatal ==
    fnLocal.finalized /\ fnLocal.memories = <<>> =>
        /\ fnLocal.status # 0
        /\ ~fnLocal.file.exists
        /\ fnLocal.table = fnArgs.table

\* C26: in a run whose docs directory is not there no call is made, nothing
\* is written, and the run ends with a non-zero status.
C26_MissingDocsAborts ==
    ~fnArgs.docsExist =>
        /\ fnLocal.pc \in {"start", "exited"}
        /\ \A c \in 1..fnArgs.chunks : fnLocal.calls[c] = 0
        /\ ~fnLocal.file.exists
        /\ fnLocal.table = fnArgs.table
        /\ fnDone => fnLocal.status # 0

\* C28: whenever calls are in flight, they are at most as many as the
\* chunks and at most as many as the --concurrency value.
C28_InFlightAtMostW ==
    fnLocal.inFlight # {} =>
        /\ Cardinality(fnLocal.inFlight) <= fnArgs.chunks
        /\ ~fnArgs.concurrency.nan
        /\ Cardinality(fnLocal.inFlight) <= fnArgs.concurrency.n

\* C30: when the batch loop is left, every chunk was handed to the service
\* exactly once and allRawMemories follows the order of the chunks.
C30_EveryChunkOnceInOrder ==
    fnLocal.pc = "finalize" \/ fnLocal.finalized =>
        /\ \A c \in 1..fnArgs.chunks : fnLocal.calls[c] = 1
        /\ \A j, k \in 1..Len(fnLocal.allRawMemories) :
              j < k => fnLocal.allRawMemories[j] < fnLocal.allRawMemories[k]

====
